---- MODULE Spec2Model ----
(***************************************************************************)
(* Agent controller of the Beitha browser extension: the per-window       *)
(* conversation store, the agent status registry, the streaming state and *)
(* executePrompt with the callbacks it hands to the execution engine.     *)
(***************************************************************************)
EXTENDS Integers, Sequences, FiniteSets, TLC

(***************************************************************************)
(* Bounds of the model                                                     *)
(***************************************************************************)
\* messages kept over all windows before the model stops appending
MaxHist == 4
\* block arrays (image messages) allocated
MaxRef == 2
\* executePrompt calls
MaxRuns == 2
\* model turns (one streamed response each) of a run
MaxSteps == 2
\* cancelExecution calls that reach a run still in progress
MaxCancels == 1
\* executePrompt calls in a behaviour that follows one call through every path
MaxCalls == 1
\* messages appended to one conversation by direct calls of the store functions
MaxApiLen == 1
\* store calls (addToConversationHistory, onLlmOutput) in flight side by side
MaxPending == 2
\* the longest content given to LlmContent, in chunks
MaxContent == 4
\* the latest reading of the clock in the status specification
MaxTime == 3

(***************************************************************************)
(* Program constants                                                       *)
(***************************************************************************)
MAX_CONVERSATION_TOKENS == 100000

\* undefined / null
NoId == 0
\* Date.now() as the run specifications read it: they do not advance time
Epoch == 1
\* an entry of agentStatusMap written at time now, and the absence of an entry
StatusInfo(status, now) == [status |-> status, timestamp |-> now, lastHeartbeat |-> now]
NoStatusInfo == [status |-> "none", timestamp |-> 0, lastHeartbeat |-> 0]
None == [role |-> "none"]

Tabs == {1, 2, 3}
\* the tabs a side panel is open on; tab 3 only ever replaces tab 1
PanelTabs == {1, 2}
Windows == {1, 2}
\* the window that owns a tab (tabs 1 and 3 share window 1)
WinOf(t) == IF t = 2 THEN 2 ELSE 1

Providers == {"anthropic", "openai", "gemini", "ollama", "unknown"}
Prompts == {"hi"}
Outputs == {"long", "huge"}
\* what the model streams in one turn: a final answer, or text with a directive
StepTexts == {"answer", "call"}
\* whether the prompts of the orchestrated runs carry images
RunImages == {FALSE}
\* /<tool>(.*?)<\/tool>\s*<input>([\s\S]*?)<\/input>/ matches the text
IsDirective(v) == v = "call"

VARIABLES
    providerConfig,          \* ConfigManager.getProviderConfig(): [provider, apiKey]
    tabStates,               \* tabManager: tab -> attached (page and windowId known)
    agents,                  \* tabManager: window -> provider its agent was built for, or "none"
    agentStatusMap,          \* window -> status info; status "none" is no entry
    windowMessageHistories,  \* window -> [has, provider, originalRequest, conversationHistory]
    nextRef,                 \* next fresh object identity for a block array
    streamingBuffer,         \* streamingManager: the one accumulation buffer
    currentSegmentId,        \* streamingManager: the one segment counter
    runs,                    \* the executePrompt calls made so far, in call order
    pendingApprovals,        \* approvalManager: requests (by run) awaiting a decision
    approvalRequests,        \* SidePanel state: tab -> requests shown in its panel
    last,                    \* the operation taken last, and what it returned / emitted
    memories,                \* MemoryService: the domains a memory is stored for
    lastDialog,              \* tools/utils: the dialog seen last ("none" when there is none)
    isProcessing,            \* SidePanel state: a prompt is being processed
    tabStatus,               \* SidePanel state: the status shown for the tab
    calls,                   \* store calls in flight, each at one of its await points
    quickPrompt              \* content/quickPrompt.ts: its module variables, the prompt
                             \* panel and the panel's outside-click listener

storeVars == <<providerConfig, tabStates, windowMessageHistories, nextRef>>
streamVars == <<streamingBuffer, currentSegmentId>>
runVars == <<agents, agentStatusMap, runs, pendingApprovals, approvalRequests>>
sideVars == <<memories, lastDialog, isProcessing, tabStatus, calls, quickPrompt>>
vars == <<storeVars, streamVars, runVars, last, sideVars>>

\* the tools' surroundings and the side panel before anything has happened
SideInit ==
    /\ memories = {}
    /\ lastDialog = "none"
    /\ isProcessing = FALSE
    /\ tabStatus = "idle"
    /\ calls = <<>>
    /\ quickPrompt = [quickPromptButton |-> FALSE, panel |-> FALSE, outsideClick |-> FALSE,
                      isPromptOpen |-> FALSE, isInteracting |-> FALSE,
                      selectionTimeout |-> FALSE, quickPromptButtonTimeout |-> FALSE,
                      suppressSelectionUntil |-> "past"]

(***************************************************************************)
(* Messages.  Content is a string (kind "text", compared by value by ===) *)
(* or a block array (kind "blocks", compared by identity by ===).         *)
(***************************************************************************)
TextContent(v) == [kind |-> "text", val |-> v, ref |-> NoId]
BlockContent(v, r) == [kind |-> "blocks", val |-> v, ref |-> r]
Msg(role, content) == [role |-> role, content |-> content]

\* JavaScript's a === b on message content
StrictEquals(a, b) ==
    /\ a.kind = b.kind
    /\ IF a.kind = "text" THEN a.val = b.val ELSE a.ref = b.ref

\* same shape and same data, whatever the object identity
StructurallyEqual(a, b) == a.kind = b.kind /\ a.val = b.val

\* tokens of one message
TokensOf(m) ==
    LET text == CASE m.content.val = "long" -> 60000
                  [] m.content.val = "huge" -> 120000
                  [] OTHER -> 10
    IN  IF m.content.kind = "blocks" THEN text + 1000 ELSE text

RECURSIVE contextTokenCount(_)
contextTokenCount(messages) ==
    IF messages = <<>> THEN 0
    ELSE TokensOf(Head(messages)) + contextTokenCount(Tail(messages))

getWindowForTab(t) == IF t \in Tabs /\ tabStates[t] THEN WinOf(t) ELSE NoId

getCurrentProvider == providerConfig.provider

EmptyHistory(provider) ==
    [has |-> TRUE, provider |-> provider, originalRequest |-> None,
     conversationHistory |-> <<>>]

NoHistory ==
    [has |-> FALSE, provider |-> "unknown", originalRequest |-> None,
     conversationHistory |-> <<>>]

(***************************************************************************)
(* Store operations, as functions from the map of histories to the map    *)
(* after the call.                                                        *)
(***************************************************************************)
\* a lookup that leaves a window without an entry as it is
getStructuredWithoutCreate(h, t) ==
    LET w == getWindowForTab(t) IN
    IF w = NoId \/ ~h[w].has THEN h
    ELSE [h EXCEPT ![w].provider = getCurrentProvider]

\* getStructuredMessageHistory: creates the entry lazily and refreshes provider
getStructuredMessageHistory(h, t) ==
    LET w == getWindowForTab(t) IN
    IF w = NoId THEN h
    ELSE IF ~h[w].has THEN [h EXCEPT ![w] = EmptyHistory(getCurrentProvider)]
    ELSE [h EXCEPT ![w].provider = getCurrentProvider]

setOriginalRequest(h, t, request) ==
    LET w == getWindowForTab(t) IN
    IF w = NoId THEN h
    ELSE [getStructuredMessageHistory(h, t) EXCEPT ![w].originalRequest = request]

\* an addToConversationHistory that puts the message in front (unshift for push)
addToFrontOfConversationHistory(h, t, message) ==
    LET w == getWindowForTab(t) IN
    IF w = NoId THEN h
    ELSE [getStructuredMessageHistory(h, t) EXCEPT
             ![w].conversationHistory = <<message>> \o @]

addToConversationHistory(h, t, message) ==
    LET w == getWindowForTab(t) IN
    IF w = NoId THEN h
    ELSE [getStructuredMessageHistory(h, t) EXCEPT
             ![w].conversationHistory = Append(@, message)]

\* a trim that evicts the newest message (pop() in place of shift())
RECURSIVE TrimNewest(_)
TrimNewest(conv) ==
    IF contextTokenCount(conv) > MAX_CONVERSATION_TOKENS /\ Len(conv) > 1
    THEN TrimNewest(SubSeq(conv, 1, Len(conv) - 1))
    ELSE conv

\* a trim that evicts one message at most (an `if` in place of the `while`)
TrimOnce(conv) ==
    IF contextTokenCount(conv) > MAX_CONVERSATION_TOKENS /\ Len(conv) > 1
    THEN Tail(conv)
    ELSE conv

\* the trim loop of onLlmOutput: shift() while over budget and more than one left
RECURSIVE TrimOldest(_)
TrimOldest(conv) ==
    IF contextTokenCount(conv) > MAX_CONVERSATION_TOKENS /\ Len(conv) > 1
    THEN TrimOldest(Tail(conv))
    ELSE conv

\* onLlmOutput, the history part: append the assistant message, then trim
AppendAssistantAndTrim(h, t, content) ==
    LET w  == getWindowForTab(t)
        h1 == addToConversationHistory(h, t, Msg("assistant", content))
        h2 == getStructuredMessageHistory(h1, t)
    IN  IF w = NoId THEN h2
        ELSE IF contextTokenCount(h2[w].conversationHistory) > MAX_CONVERSATION_TOKENS
        THEN [h2 EXCEPT ![w].conversationHistory = TrimOldest(@)]
        ELSE h2

\* a conversion that sends every stored role as it is
ConvertRoleKept(role, provider) == role

\* the role a provider is sent for a stored role
ConvertRole(role, provider) ==
    IF provider \in {"openai", "gemini", "ollama"}
    THEN (IF role = "assistant" THEN "assistant" ELSE "user")
    ELSE (IF role \in {"user", "assistant"} THEN role ELSE "user")

\* the content a provider is sent: gemini gets a block array rebuilt by map(),
\* a new array with the same data; every other content is passed as it is
ConvertContent(content, provider) ==
    IF provider = "gemini" /\ content.kind = "blocks"
    THEN BlockContent(content.val, NoId)
    ELSE content

convertMessagesToProviderFormat(messages, provider) ==
    [i \in 1..Len(messages) |->
        Msg(ConvertRole(messages[i].role, provider),
            ConvertContent(messages[i].content, provider))]

\* the de-duplication test of getMessageHistory
IsDuplicate(history) ==
    /\ Len(history.conversationHistory) > 0
    /\ history.conversationHistory[1].role = history.originalRequest.role
    /\ StrictEquals(history.conversationHistory[1].content,
                    history.originalRequest.content)

\* the list getMessageHistory converts, for the (existing) history of a window
MessagesToConvert(history) ==
    IF history.originalRequest # None
    THEN IF IsDuplicate(history)
         THEN history.conversationHistory
         ELSE <<history.originalRequest>> \o history.conversationHistory
    ELSE history.conversationHistory

\* what getMessageHistory returns, given the map after its lazy creation
getMessageHistoryResult(h, t) ==
    LET w == getWindowForTab(t) IN
    IF w = NoId THEN <<>>
    ELSE convertMessagesToProviderFormat(MessagesToConvert(h[w]), getCurrentProvider)

\* the user message executePrompt builds from the prompt and the images
UserMessage(prompt, images, ref) ==
    IF images THEN Msg("user", BlockContent(prompt, ref))
    ELSE Msg("user", TextContent(prompt))

\* a history update that records the first prompt as original request only
UpdateHistoryOriginalOnly(h, t, userMessage) ==
    LET w  == getWindowForTab(t)
        h0 == getStructuredMessageHistory(h, t)
        first == IF w = NoId THEN TRUE ELSE h0[w].originalRequest = None
    IN  IF first
        THEN setOriginalRequest(h0, t, userMessage)
        ELSE addToConversationHistory(h0, t, userMessage)

\* executePrompt, the history update: first prompt or follow-up
UpdateHistoryWithPrompt(h, t, userMessage) ==
    LET w  == getWindowForTab(t)
        h0 == getStructuredMessageHistory(h, t)
        first == IF w = NoId THEN TRUE ELSE h0[w].originalRequest = None
    IN  IF first
        THEN addToConversationHistory(setOriginalRequest(h0, t, userMessage), t, userMessage)
        ELSE addToConversationHistory(h0, t, userMessage)

\* clearMessageHistory(tabId, windowId); currentTab is getCurrentTabId()
clearMessageHistoryResult(h, tabId, windowId, currentTab) ==
    LET w == IF tabId # NoId /\ windowId = NoId THEN getWindowForTab(tabId) ELSE windowId
    IN  IF w # NoId
        THEN [h EXCEPT ![w] = EmptyHistory(getCurrentProvider)]
        ELSE IF currentTab # NoId
        THEN (IF getWindowForTab(currentTab) # NoId
              THEN [h EXCEPT ![getWindowForTab(currentTab)] = EmptyHistory(getCurrentProvider)]
              ELSE h)
        ELSE [x \in Windows |-> NoHistory]

TotalStored(h) ==
    LET RECURSIVE Sum(_)
        Sum(S) == IF S = {} THEN 0
                  ELSE LET x == CHOOSE y \in S : TRUE
                       IN  Len(h[x].conversationHistory) + Sum(S \ {x})
    IN  Sum(Windows)

(***************************************************************************)
(* UI events (sendUIMessage) and the record of the last operation         *)
(***************************************************************************)
Ev(action, tab, info) == [action |-> action, tab |-> tab, info |-> info]

Last(op, run, tab, out, ret) ==
    [op |-> op, run |-> run, tab |-> tab, out |-> out, ret |-> ret]

\* a piece of model output: the run and step that produced it, and its text
Token(r, s, v) == [run |-> r, step |-> s, val |-> v]

(***************************************************************************)
(* Initial state: nothing attached, no agent, no history, no run          *)
(***************************************************************************)
Init ==
    /\ providerConfig \in {[provider |-> "anthropic", apiKey |-> TRUE],
                            [provider |-> "anthropic", apiKey |-> FALSE]}
    /\ tabStates = [t \in Tabs |-> FALSE]
    /\ agents = [w \in Windows |-> "none"]
    /\ agentStatusMap = [w \in Windows |-> NoStatusInfo]
    /\ windowMessageHistories = [w \in Windows |-> NoHistory]
    /\ nextRef = 1
    /\ streamingBuffer = <<>>
    /\ currentSegmentId = 0
    /\ runs = <<>>
    /\ pendingApprovals = {}
    /\ approvalRequests = [t \in Tabs |-> {}]
    /\ last = Last("init", NoId, NoId, <<>>, <<>>)
    /\ SideInit

(***************************************************************************)
(* The conversation store on its own: the history update of executePrompt *)
(* and the onLlmOutput callback, for tabs whose windows are known.        *)
(***************************************************************************)
StoreInit ==
    /\ providerConfig = [provider |-> "anthropic", apiKey |-> TRUE]
    /\ tabStates = [t \in Tabs |-> t # 3]
    /\ agents = [w \in Windows |-> "anthropic"]
    /\ agentStatusMap = [w \in Windows |-> NoStatusInfo]
    /\ windowMessageHistories = [w \in Windows |-> NoHistory]
    /\ nextRef = 1
    /\ streamingBuffer = <<>>
    /\ currentSegmentId = 0
    /\ runs = <<>>
    /\ pendingApprovals = {}
    /\ approvalRequests = [t \in Tabs |-> {}]
    /\ last = Last("init", NoId, NoId, <<>>, <<>>)
    /\ SideInit

\* the conversation history of the window of tab t before an operation
ConvOf(h, t) ==
    IF getWindowForTab(t) = NoId THEN <<>>
    ELSE h[getWindowForTab(t)].conversationHistory

\* executePrompt lines 771-921 for a prompt on tab t
PromptAppended(t, prompt, images) ==
    /\ TotalStored(windowMessageHistories) < MaxHist
    /\ images => nextRef <= MaxRef
    /\ windowMessageHistories' =
          UpdateHistoryWithPrompt(windowMessageHistories, t,
                                  UserMessage(prompt, images, nextRef))
    /\ nextRef' = IF images THEN nextRef + 1 ELSE nextRef
    /\ last' = Last("updateHistory", NoId, t, <<>>, UserMessage(prompt, images, nextRef))
    /\ UNCHANGED <<sideVars, providerConfig, tabStates, streamVars, runVars>>

\* the onLlmOutput callback for content v of a run on tab t
AssistantOutput(t, v) ==
    /\ TotalStored(windowMessageHistories) < MaxHist
    /\ streamingBuffer' = <<Token(NoId, NoId, v)>>
    /\ windowMessageHistories' =
          AppendAssistantAndTrim(windowMessageHistories, t, TextContent(v))
    /\ last' = Last("onLlmOutput", NoId, t, <<>>, Len(ConvOf(windowMessageHistories, t)))
    /\ UNCHANGED <<sideVars, providerConfig, tabStates, nextRef, currentSegmentId, runVars>>

GetMessageHistory(t) ==
    /\ windowMessageHistories' = getStructuredMessageHistory(windowMessageHistories, t)
    /\ last' = Last("getMessageHistory", NoId, t, <<>>,
                    getMessageHistoryResult(windowMessageHistories', t))
    /\ UNCHANGED <<sideVars, providerConfig, tabStates, nextRef, streamVars, runVars>>

ClearMessageHistory(tabId, windowId, currentTab) ==
    /\ windowMessageHistories' =
          clearMessageHistoryResult(windowMessageHistories, tabId, windowId, currentTab)
    /\ last' = Last("clearMessageHistory", NoId, tabId, <<>>, windowId)
    /\ UNCHANGED <<sideVars, providerConfig, tabStates, nextRef, streamVars, runVars>>

StoreNext ==
    \/ \E t \in Tabs, p \in Prompts, i \in BOOLEAN : PromptAppended(t, p, i)
    \/ \E t \in Tabs, v \in Outputs : AssistantOutput(t, v)
    \/ \E t \in Tabs : GetMessageHistory(t)
    \/ \E t \in Tabs \cup {NoId}, w \in Windows \cup {NoId}, c \in {NoId, 1} :
          ClearMessageHistory(t, w, c)

StoreSpec == StoreInit /\ [][StoreNext]_vars

(***************************************************************************)
(* The store under interleaving: addToConversationHistory and onLlmOutput  *)
(* are async functions, and each of their awaits lets the other calls in   *)
(* flight run.  A call is at "append" while addToConversationHistory       *)
(* awaits getStructuredMessageHistory (line 385), at "read" while          *)
(* onLlmOutput awaits getStructuredMessageHistory (line 966), and at       *)
(* "evicting" when its trim loop has given way between two evictions.      *)
(***************************************************************************)
CallIds == 1..Len(calls)

Call(tab, message) ==
    [tab |-> tab, message |-> message, pc |-> "append", counted |-> <<>>]

\* the calls in flight once call c has returned
Returns(c) == [i \in 1..(Len(calls) - 1) |-> IF i < c THEN calls[i] ELSE calls[i + 1]]

\* a trim loop that gives way to the other calls after every eviction
TrimSectionYielding(conv) ==
    [conv |-> TrimOnce(conv),
     pc |-> IF /\ contextTokenCount(TrimOnce(conv)) > MAX_CONVERSATION_TOKENS
               /\ Len(TrimOnce(conv)) > 1
            THEN "evicting" ELSE "done"]

\* lines 976-980: the while loop holds no await, it runs to its end
TrimSection(conv) == [conv |-> TrimOldest(conv), pc |-> "done"]

\* addToConversationHistory(tabId, message) is called, by the history update of
\* an executePrompt (user) or by onLlmOutput (assistant, line 963)
StartCall(t, message) ==
    /\ Len(calls) < MaxPending
    /\ calls' = Append(calls, Call(t, message))
    /\ last' = Last("addToConversationHistory", NoId, t, <<>>, message)
    /\ UNCHANGED <<memories, lastDialog, isProcessing, tabStatus, quickPrompt, storeVars, streamVars,
                   runVars>>

\* ConfigManager.getProviderConfig answers in the order it is asked: of the
\* calls of addToConversationHistory waiting for it, the earliest resumes first
ResumesFirst(c) == \A d \in 1..(c - 1) : calls[d].pc # "append"

\* lines 385-387: the await of addToConversationHistory is over, the message is
\* pushed; the call returns, or onLlmOutput goes on to its own await (line 966)
PushMessage(c) ==
    /\ calls[c].pc = "append"
    /\ ResumesFirst(c)
    /\ TotalStored(windowMessageHistories) < MaxHist
    /\ windowMessageHistories' =
          addToConversationHistory(windowMessageHistories, calls[c].tab, calls[c].message)
    /\ calls' = IF calls[c].message.role = "assistant"
                THEN [calls EXCEPT ![c].pc = "read"]
                ELSE Returns(c)
    /\ last' = Last("push", NoId, calls[c].tab, <<>>, calls[c].message)
    /\ UNCHANGED <<memories, lastDialog, isProcessing, tabStatus, quickPrompt, providerConfig,
                   tabStates, nextRef, streamVars, runVars>>

\* lines 966-990: the history is read and counted, and trimmed when over budget
ReadAndTrim(c) ==
    LET t       == calls[c].tab
        w       == getWindowForTab(t)
        h2      == getStructuredMessageHistory(windowMessageHistories, t)
        conv    == ConvOf(h2, t)
        counted == IF calls[c].pc = "read" THEN conv ELSE calls[c].counted
        over    == \/ calls[c].pc = "evicting"
                   \/ contextTokenCount(conv) > MAX_CONVERSATION_TOKENS
        res     == IF over THEN TrimSection(conv) ELSE [conv |-> conv, pc |-> "done"]
    IN
    /\ calls[c].pc \in {"read", "evicting"}
    /\ windowMessageHistories' =
          IF w = NoId THEN h2 ELSE [h2 EXCEPT ![w].conversationHistory = res.conv]
    /\ calls' = IF res.pc = "done" THEN Returns(c)
                ELSE [calls EXCEPT ![c].pc = res.pc, ![c].counted = counted]
    /\ last' = Last("trim", NoId, t, <<>>, [counted |-> counted, pc |-> res.pc])
    /\ UNCHANGED <<memories, lastDialog, isProcessing, tabStatus, quickPrompt, providerConfig,
                   tabStates, nextRef, streamVars, runVars>>

\* the calls are made for one tab: interleaving matters within a window
TrimTabs == {1}

TrimNext ==
    \/ \E t \in TrimTabs, p \in Prompts : StartCall(t, Msg("user", TextContent(p)))
    \/ \E t \in TrimTabs, v \in Outputs : StartCall(t, Msg("assistant", TextContent(v)))
    \/ \E c \in CallIds : PushMessage(c)
    \/ \E c \in CallIds : ReadAndTrim(c)

TrimSpec == StoreInit /\ [][TrimNext]_vars

(***************************************************************************)
(* The history update of executePrompt under interleaving.                 *)
(* handleExecutePrompt does not await executePrompt, so the updates of two *)
(* prompts overlap.  An update is at "check" while it awaits               *)
(* getCurrentProvider (line 778) with the history object in hand, at       *)
(* "setOriginal" while setOriginalRequest awaits                           *)
(* getStructuredMessageHistory (line 367), and at "append" as above.       *)
(***************************************************************************)
\* lines 771-778: the history object is fetched (and created if missing)
StartUpdate(t, message) ==
    /\ Len(calls) < MaxPending
    /\ windowMessageHistories' = getStructuredMessageHistory(windowMessageHistories, t)
    /\ calls' = Append(calls, [Call(t, message) EXCEPT !.pc = "check"])
    /\ last' = Last("executePrompt", NoId, t, <<>>, message)
    /\ UNCHANGED <<memories, lastDialog, isProcessing, tabStatus, quickPrompt, providerConfig,
                   tabStates, nextRef, streamVars, runVars>>

\* line 787: if (!history.originalRequest) setOriginalRequest is called (853),
\* else addToConversationHistory (920)
CheckFirst(c) ==
    /\ calls[c].pc = "check"
    /\ calls' = [calls EXCEPT ![c].pc =
                    IF windowMessageHistories[getWindowForTab(calls[c].tab)].originalRequest
                          = None
                    THEN "setOriginal" ELSE "append"]
    /\ last' = Last("firstPromptCheck", NoId, calls[c].tab, <<>>, calls'[c].pc)
    /\ UNCHANGED <<memories, lastDialog, isProcessing, tabStatus, quickPrompt, storeVars, streamVars,
                   runVars>>

\* lines 367-369: the await of setOriginalRequest is over, originalRequest is
\* assigned; executePrompt goes on to addToConversationHistory (856)
AssignOriginal(c) ==
    /\ calls[c].pc = "setOriginal"
    /\ windowMessageHistories' =
          setOriginalRequest(windowMessageHistories, calls[c].tab, calls[c].message)
    /\ calls' = [calls EXCEPT ![c].pc = "append"]
    /\ last' = Last("setOriginalRequest", NoId, calls[c].tab, <<>>, calls[c].message)
    /\ UNCHANGED <<memories, lastDialog, isProcessing, tabStatus, quickPrompt, providerConfig,
                   tabStates, nextRef, streamVars, runVars>>

OverlapNext ==
    \/ \E t \in TrimTabs, p \in {"hi", "more"} : StartUpdate(t, Msg("user", TextContent(p)))
    \/ \E c \in CallIds : CheckFirst(c)
    \/ \E c \in CallIds : AssignOriginal(c)
    \/ \E c \in CallIds : PushMessage(c)

OverlapSpec == StoreInit /\ [][OverlapNext]_vars

(***************************************************************************)
(* The exported store functions called directly, with any role, any       *)
(* content and any provider.                                              *)
(***************************************************************************)
\* content that is neither a string nor a block array (a number, say)
MalformedContent == [kind |-> "malformed", val |-> "42", ref |-> NoId]

Roles == {"user", "assistant", "system", "tool"}

\* text and malformed content under every role, and a user message with an image
ApiMessages ==
    {Msg(r, c) : r \in Roles, c \in {TextContent("hi"), MalformedContent}}
        \cup {Msg("user", BlockContent("hi", 1))}

\* a tab of window 1 and a tab with no window
ApiTabs == {1, 3}

ApiInit ==
    /\ providerConfig \in {[provider |-> p, apiKey |-> TRUE] : p \in Providers}
    /\ tabStates = [t \in Tabs |-> t # 3]
    /\ agents = [w \in Windows |-> "anthropic"]
    /\ agentStatusMap = [w \in Windows |-> NoStatusInfo]
    /\ windowMessageHistories = [w \in Windows |-> NoHistory]
    /\ nextRef = 1
    /\ streamingBuffer = <<>>
    /\ currentSegmentId = 0
    /\ runs = <<>>
    /\ pendingApprovals = {}
    /\ approvalRequests = [t \in Tabs |-> {}]
    /\ last = Last("init", NoId, NoId, <<>>, <<>>)
    /\ SideInit

SetOriginalRequest(t, request) ==
    /\ windowMessageHistories' = setOriginalRequest(windowMessageHistories, t, request)
    /\ last' = Last("setOriginalRequest", NoId, t, <<>>, request)
    /\ UNCHANGED <<sideVars, providerConfig, tabStates, nextRef, streamVars, runVars>>

AddToConversationHistory(t, message) ==
    /\ Len(ConvOf(windowMessageHistories, t)) < MaxApiLen
    /\ windowMessageHistories' =
          addToConversationHistory(windowMessageHistories, t, message)
    /\ last' = Last("addToConversationHistory", NoId, t, <<>>, message)
    /\ UNCHANGED <<sideVars, providerConfig, tabStates, nextRef, streamVars, runVars>>

ApiNext ==
    \/ \E t \in ApiTabs, m \in ApiMessages : SetOriginalRequest(t, m)
    \/ \E t \in ApiTabs, m \in ApiMessages : AddToConversationHistory(t, m)
    \/ \E t \in ApiTabs : GetMessageHistory(t)

ApiSpec == ApiInit /\ [][ApiNext]_vars

(***************************************************************************)
(* executePrompt.  A call is a run: runs[r] is its position (pc), its      *)
(* arguments and what it has emitted so far.                              *)
(***************************************************************************)
Runs == 1..Len(runs)

EnginePcs == {"stream", "chunked", "segdone", "output", "tool", "approval",
              "approved", "denied", "final"}

\* getAgentStatus(w).status: a window with no entry reads as idle
getAgentStatus(w) ==
    IF agentStatusMap[w].status = "none" THEN "idle" ELSE agentStatusMap[w].status

\* what a call for tab target finds: the history and the status of its window
\* (none, idle, without a target) and the streaming state
Snapshot(target) ==
    [history |-> IF target = NoId THEN NoHistory
                 ELSE windowMessageHistories[WinOf(target)],
     status |-> IF target = NoId THEN "idle" ELSE getAgentStatus(WinOf(target)),
     buffer |-> streamingBuffer, segmentId |-> currentSegmentId]

NewRun(tabId, target, askMode, prompt, images, pc, result, pcTabs, errors) ==
    [pc |-> pc, tabId |-> tabId, target |-> target, askMode |-> askMode,
     prompt |-> prompt, images |-> images, before |-> Snapshot(target),
     step |-> 0, text |-> "", fed |-> {}, cancelled |-> FALSE,
     deniedByCancel |-> FALSE, fin |-> <<>>, dispatched |-> {},
     pcTabs |-> pcTabs, cancelCompletes |-> 0, errors |-> errors,
     result |-> result]

\* a further executePrompt call may be made
MayCall == Len(runs) < MaxRuns

\* an error shown to the user followed by processingComplete, both sent to tab
ErrorAndComplete(tab) ==
    <<Ev("updateOutput", tab, "error"), Ev("processingComplete", tab, "")>>

\* a call that ends before a run starts: result and the events it sent, to tab
FailedRun(tabId, target, askMode, prompt, images, result, tab) ==
    NewRun(tabId, target, askMode, prompt, images, "done", result, <<tab>>, 1)

\* lines 515-524: no API key (Ollama needs none)
ExecutePromptNoApiKey(tabId, askMode, prompt, images) ==
    /\ MayCall
    /\ ~providerConfig.apiKey /\ providerConfig.provider # "ollama"
    /\ runs' = Append(runs, FailedRun(tabId, NoId, askMode, prompt, images,
                                      "NoApiKey", tabId))
    /\ last' = Last("executePrompt", Len(runs) + 1, tabId, ErrorAndComplete(tabId), <<>>)
    /\ UNCHANGED <<sideVars, storeVars, streamVars, agents, agentStatusMap,
                   pendingApprovals, approvalRequests>>

\* an ask mode that records the prompt as the agent mode does
askModeStoresPrompt(h, tabId, userMessage) == UpdateHistoryWithPrompt(h, tabId, userMessage)

\* lines 545-580: ask mode hands its user message to provider.createMessage and
\* calls no function of the store; the histories after it
askModeHistories(h, tabId, userMessage) == h

\* lines 528-610: ask mode, a direct provider call; ok is whether the stream ends well
ExecutePromptAsk(tabId, prompt, images, ok) ==
    /\ MayCall
    /\ providerConfig.apiKey \/ providerConfig.provider = "ollama"
    /\ runs' = Append(runs,
          IF ok THEN NewRun(tabId, NoId, TRUE, prompt, images, "done", "AskOk",
                            <<tabId>>, 0)
          ELSE FailedRun(tabId, NoId, TRUE, prompt, images, "AskError", tabId))
    /\ last' = Last("executePrompt", Len(runs) + 1, tabId,
                    IF ok THEN <<Ev("updateStreamingChunk", tabId, ""),
                                 Ev("updateOutput", tabId, "llm"),
                                 Ev("processingComplete", tabId, "")>>
                    ELSE ErrorAndComplete(tabId), <<>>)
    /\ windowMessageHistories' =
          askModeHistories(windowMessageHistories, tabId, UserMessage(prompt, images, nextRef))
    /\ UNCHANGED <<sideVars, providerConfig, tabStates, nextRef, streamVars, agents,
                   agentStatusMap, pendingApprovals, approvalRequests>>

\* lines 612-626: no tab given and no active tab found
ExecutePromptNoTab(prompt, images) ==
    /\ MayCall
    /\ providerConfig.apiKey \/ providerConfig.provider = "ollama"
    /\ runs' = Append(runs, FailedRun(NoId, NoId, FALSE, prompt, images,
                                      "NoTargetTab", NoId))
    /\ last' = Last("executePrompt", Len(runs) + 1, NoId, ErrorAndComplete(NoId), <<>>)
    /\ UNCHANGED <<sideVars, storeVars, streamVars, agents, agentStatusMap,
                   pendingApprovals, approvalRequests>>

\* needsReinitialization(agent, providerConfig): the agent was built for
\* another configuration than the current one
needsReinitialization(agent) == agent # providerConfig.provider

\* initializeAgent(tab) on the tab states ts: the agents map after it.
\* created: createBrowserAgent succeeds
initializeAgent(ts, tab, created) ==
    LET existingAgent == agents[WinOf(tab)]
        needsInit == existingAgent = "none"
        needsReinit == existingAgent # "none" /\ needsReinitialization(existingAgent)
    IN  IF ~ts[tab] THEN agents
        ELSE IF /\ needsInit \/ needsReinit
                /\ providerConfig.apiKey \/ providerConfig.provider = "ollama"
                /\ created
        THEN [agents EXCEPT ![WinOf(tab)] = providerConfig.provider]
        ELSE agents

\* the tab states after attachToTab(tab) returned attach
attachToTab(tab, attach) ==
    IF attach = "true" THEN [tabStates EXCEPT ![tab] = TRUE] ELSE tabStates

AttachResults == {"true", "false", "unsupported_tab"}

\* lines 612-707: tab resolution, attach and initialization, up to the check of
\* the updated tab state.  active: the active tab chrome.tabs.query returns;
\* healthy: isConnectionHealthy; attach: what attachToTab returns
ExecutePrompt(tabId, active, prompt, images, healthy, attach, created) ==
    LET target0 == IF tabId # NoId THEN tabId ELSE active
        needsInitialization == ~tabStates[target0] \/ agents[WinOf(target0)] = "none"
        connectionBroken == tabStates[target0] /\ ~healthy
        init == needsInitialization \/ connectionBroken
        target == target0
        ts == IF init THEN attachToTab(target0, attach) ELSE tabStates
        notice == IF init THEN <<Ev("updateOutput", target0, "system")>> ELSE <<>>
        r == Len(runs) + 1
    IN
    /\ MayCall
    /\ providerConfig.apiKey \/ providerConfig.provider = "ollama"
    /\ target0 # NoId
    /\ tabId # NoId => active = NoId
    /\ ~init => (attach = "true" /\ created)
    /\ IF init /\ attach = "unsupported_tab"
       THEN /\ runs' = Append(runs, FailedRun(tabId, target0, FALSE, prompt, images,
                                              "UnsupportedTab", target0))
            /\ last' = Last("executePrompt", r, target0,
                            notice \o ErrorAndComplete(target0), <<>>)
            /\ UNCHANGED <<sideVars, tabStates, agents>>
       ELSE /\ tabStates' = ts
            /\ agents' = IF init THEN initializeAgent(ts, target, created) ELSE agents
            /\ IF ~ts[target]
               THEN /\ runs' = Append(runs, FailedRun(tabId, target, FALSE, prompt,
                                                      images, "InitFailed", target))
                    /\ last' = Last("executePrompt", r, target,
                                    notice \o ErrorAndComplete(target), <<>>)
               ELSE /\ runs' = Append(runs, NewRun(tabId, target, FALSE, prompt, images,
                                                   "setRunning", "", <<>>, 0))
                    /\ last' = Last("executePrompt", r, target, notice, <<>>)
    /\ UNCHANGED <<sideVars, providerConfig, windowMessageHistories, nextRef, streamVars,
                   agentStatusMap, pendingApprovals, approvalRequests>>

\* the providers the options page switches between
ConfigProviders == {"anthropic", "openai"}

\* the user saves another provider in the options: chrome.storage changes and
\* the background only notifies its clients
ProviderConfigChanged(p) ==
    /\ p # providerConfig.provider
    /\ providerConfig' = [providerConfig EXCEPT !.provider = p]
    /\ last' = Last("providerConfigChanged", NoId, NoId,
                    <<Ev("providerConfigChanged", NoId, "")>>, <<>>)
    /\ UNCHANGED <<sideVars, tabStates, windowMessageHistories, nextRef, streamVars,
                   runVars>>

\* background handleInitializeTab: attachToTab then initializeAgent, when the
\* side panel opens on a tab
InitializeTab(t, attach, created) ==
    LET ts == attachToTab(t, attach) IN
    /\ attach \in {"true", "false"}
    /\ ~tabStates[t] \/ agents[WinOf(t)] # providerConfig.provider
    /\ tabStates' = ts
    /\ agents' = initializeAgent(ts, t, created)
    /\ last' = Last("initializeTab", NoId, t, <<>>, <<>>)
    /\ UNCHANGED <<sideVars, providerConfig, windowMessageHistories, nextRef, streamVars,
                   agentStatusMap, runs, pendingApprovals, approvalRequests>>

\* setAgentStatus(windowId, status) when Date.now() returns now
setAgentStatusAt(w, status, now) ==
    [agentStatusMap EXCEPT ![w] = StatusInfo(status, now)]

setAgentStatus(w, status) == setAgentStatusAt(w, status, Epoch)

\* a heartbeat that refreshes whatever entry the window has
updateAgentHeartbeatAnyStatus(w, now) ==
    IF agentStatusMap[w].status # "none"
    THEN [agentStatusMap EXCEPT ![w].lastHeartbeat = now]
    ELSE agentStatusMap

\* updateAgentHeartbeat(windowId) when Date.now() returns now
updateAgentHeartbeat(w, now) ==
    IF agentStatusMap[w].status # "none" /\ agentStatusMap[w].status = "running"
    THEN [agentStatusMap EXCEPT ![w].lastHeartbeat = now]
    ELSE agentStatusMap

\* lines 709-768: page context, status RUNNING, resetStreamingState
SetRunning(r) ==
    LET t == runs[r].target IN
    /\ runs[r].pc = "setRunning"
    /\ agentStatusMap' = setAgentStatus(WinOf(t), "running")
    /\ streamingBuffer' = <<>>
    /\ currentSegmentId' = 0
    /\ runs' = [runs EXCEPT ![r].pc = "history"]
    /\ last' = Last("setRunning", r, t, <<Ev("updateOutput", t, "pageContext")>>, <<>>)
    /\ UNCHANGED <<sideVars, storeVars, agents, pendingApprovals, approvalRequests>>

\* lines 770-921: the user message becomes the original request or a follow-up
UpdateHistory(r) ==
    LET t == runs[r].target IN
    /\ runs[r].pc = "history"
    /\ TotalStored(windowMessageHistories) < MaxHist
    /\ runs[r].images => nextRef <= MaxRef
    /\ windowMessageHistories' =
          UpdateHistoryWithPrompt(windowMessageHistories, t,
                                  UserMessage(runs[r].prompt, runs[r].images, nextRef))
    /\ nextRef' = IF runs[r].images THEN nextRef + 1 ELSE nextRef
    /\ runs' = [runs EXCEPT ![r].pc = "agentCheck"]
    /\ last' = Last("updateHistory", r, t, <<>>, <<>>)
    /\ UNCHANGED <<sideVars, providerConfig, tabStates, streamVars, agents, agentStatusMap,
                   pendingApprovals, approvalRequests>>

\* lines 1119-1142: the window and agent checks, then getMessageHistory
AgentCheck(r) ==
    LET t == runs[r].target IN
    /\ runs[r].pc = "agentCheck"
    /\ IF getWindowForTab(t) = NoId \/ agents[WinOf(t)] = "none"
       THEN /\ runs' = [runs EXCEPT ![r].pc = "done",
                          ![r].result = IF getWindowForTab(t) = NoId
                                        THEN "NoWindow" ELSE "NoAgent",
                          ![r].pcTabs = Append(@, t),
                          ![r].errors = @ + 1]
            /\ last' = Last("agentCheck", r, t, ErrorAndComplete(t), <<>>)
            /\ UNCHANGED windowMessageHistories
       ELSE /\ runs' = [runs EXCEPT ![r].pc = "stream"]
            /\ windowMessageHistories' =
                  getStructuredMessageHistory(windowMessageHistories, t)
            /\ last' = Last("agentCheck", r, t, <<>>,
                            getMessageHistoryResult(windowMessageHistories', t))
    /\ UNCHANGED <<sideVars, providerConfig, tabStates, nextRef, streamVars, agents,
                   agentStatusMap, pendingApprovals, approvalRequests>>

(***************************************************************************)
(* The callbacks executePrompt hands to executePromptWithFallback.  The    *)
(* order in which the engine calls them is the specification's: deltas,    *)
(* then for a directive onSegmentComplete and onToolStart, then            *)
(* onLlmOutput with the whole turn, then the tool or onComplete.           *)
(***************************************************************************)
\* the streaming buffer holds a tool call (the test of onComplete)
hasToolCall(buffer) == \E i \in 1..Len(buffer) : IsDirective(buffer[i].val)

Finalized(id, content) == [id |-> id, content |-> content]

\* onLlmChunk: a delta of a new turn, text v, goes to the buffer and the UI
LlmChunk(r, v) ==
    LET t == runs[r].target IN
    /\ runs[r].pc = "stream"
    /\ ~runs[r].cancelled
    /\ runs[r].step < MaxSteps
    /\ streamingBuffer' = Append(streamingBuffer, Token(r, runs[r].step + 1, v))
    /\ runs' = [runs EXCEPT ![r].pc = "chunked", ![r].step = @ + 1, ![r].text = v,
                  ![r].fed = @ \cup {Token(r, runs[r].step + 1, v)}]
    /\ last' = Last("onLlmChunk", r, t, <<Ev("updateStreamingChunk", t, "")>>, <<>>)
    /\ UNCHANGED <<sideVars, storeVars, currentSegmentId, agents, agentStatusMap,
                   pendingApprovals, approvalRequests>>

\* what onComplete does that is not a message to the panel
IsInternalEffect(e) == e.action \in {"clearStreamingBuffer", "setAgentStatus"}

\* an onComplete that tells the panel the run is over before the status is reset
onCompleteStatusLast(t, w, trailing, segmentId) ==
    (IF trailing THEN <<Ev("finalizeStreamingSegment", t, segmentId)>> ELSE <<>>)
    \o <<Ev("clearStreamingBuffer", t, ""), Ev("streamingComplete", t, ""),
         Ev("processingComplete", t, "")>>
    \o (IF w # NoId THEN <<Ev("setAgentStatus", w, "idle")>> ELSE <<>>)

\* lines 1086-1116: what onComplete does, in the order of its statements
onCompleteEffects(t, w, trailing, segmentId) ==
    (IF trailing THEN <<Ev("finalizeStreamingSegment", t, segmentId)>> ELSE <<>>)
    \o <<Ev("clearStreamingBuffer", t, ""), Ev("streamingComplete", t, "")>>
    \o (IF w # NoId THEN <<Ev("setAgentStatus", w, "idle")>> ELSE <<>>)
    \o <<Ev("processingComplete", t, "")>>

\* onSegmentComplete(segment): the turn's text holds a directive, and segment is
\* the prose in front of it
SegmentComplete(r) ==
    LET t == runs[r].target
        segment == <<Token(r, runs[r].step, "prose")>>
    IN
    /\ runs[r].pc = "chunked"
    /\ IsDirective(runs[r].text)
    /\ runs' = [runs EXCEPT ![r].pc = "segdone",
                  ![r].fin = Append(@, Finalized(currentSegmentId, segment))]
    /\ currentSegmentId' = currentSegmentId + 1
    /\ last' = Last("onSegmentComplete", r, t,
                    <<Ev("finalizeStreamingSegment", t, currentSegmentId)>>, <<>>)
    /\ UNCHANGED <<sideVars, storeVars, streamingBuffer, agents, agentStatusMap,
                   pendingApprovals, approvalRequests>>

\* onToolStart(toolName, toolInput): the directive is dispatched
ToolStart(r) ==
    LET t == runs[r].target IN
    /\ runs[r].pc = "segdone"
    /\ runs' = [runs EXCEPT ![r].pc = "output", ![r].dispatched = @ \cup {runs[r].step}]
    /\ last' = Last("onToolStart", r, t,
                    <<Ev("startNewSegment", t, currentSegmentId)>>, <<>>)
    /\ UNCHANGED <<sideVars, storeVars, streamVars, agents, agentStatusMap,
                   pendingApprovals, approvalRequests>>

\* onLlmOutput(content): the whole text of the turn
LlmOutput(r) ==
    LET t == runs[r].target
        v == runs[r].text
    IN
    /\ \/ runs[r].pc = "output"
       \/ runs[r].pc = "chunked" /\ ~IsDirective(v)
    /\ TotalStored(windowMessageHistories) < MaxHist
    /\ streamingBuffer' = <<Token(r, runs[r].step, v)>>
    /\ windowMessageHistories' =
          AppendAssistantAndTrim(windowMessageHistories, t, TextContent(v))
    /\ runs' = [runs EXCEPT ![r].pc = IF IsDirective(v) THEN "tool" ELSE "final"]
    /\ last' = Last("onLlmOutput", r, t, <<>>, Len(ConvOf(windowMessageHistories, t)))
    /\ UNCHANGED <<sideVars, providerConfig, tabStates, nextRef, currentSegmentId, agents,
                   agentStatusMap, pendingApprovals, approvalRequests>>

\* the approval gate raises a request for the dispatched tool; the panel lists it
RequestApproval(r) ==
    LET t == runs[r].target IN
    /\ runs[r].pc = "tool"
    /\ ~runs[r].cancelled
    /\ pendingApprovals' = pendingApprovals \cup {r}
    /\ approvalRequests' = [approvalRequests EXCEPT ![t] = @ \cup {r}]
    /\ runs' = [runs EXCEPT ![r].pc = "approval"]
    /\ last' = Last("requestApproval", r, t, <<Ev("requestApproval", t, r)>>, <<>>)
    /\ UNCHANGED <<sideVars, storeVars, streamVars, agents, agentStatusMap>>

\* handleApprovalResponse(requestId, approved) on the runs: the waiting run resumes
handleApprovalResponse(rs, pending, requestId, approved) ==
    IF requestId \in pending
    THEN [rs EXCEPT ![requestId].pc = IF approved THEN "approved" ELSE "denied"]
    ELSE rs

\* SidePanel handleApprove / handleReject: answer and drop the request
HandleApprovalDecision(t, requestId, approved) ==
    /\ requestId \in approvalRequests[t]
    /\ runs' = handleApprovalResponse(runs, pendingApprovals, requestId, approved)
    /\ pendingApprovals' = pendingApprovals \ {requestId}
    /\ approvalRequests' = [approvalRequests EXCEPT ![t] = @ \ {requestId}]
    /\ last' = Last(IF approved THEN "handleApprove" ELSE "handleReject", requestId, t,
                    <<>>, <<>>)
    /\ UNCHANGED <<sideVars, storeVars, streamVars, agents, agentStatusMap>>

\* onToolOutput and onToolEnd: the tool ran (or was denied) and the next turn starts
ToolEnd(r) ==
    LET t == runs[r].target IN
    /\ runs[r].pc \in {"tool", "approved", "denied"}
    /\ runs' = [runs EXCEPT ![r].pc = "stream", ![r].text = ""]
    /\ last' = Last("onToolEnd", r, t, <<Ev("updateOutput", t, "llm")>>, <<>>)
    /\ UNCHANGED <<sideVars, storeVars, streamVars, agents, agentStatusMap,
                   pendingApprovals, approvalRequests>>

\* an onError that treats a transient error as the end of the run
TransientErrorEndsRun(r, type) ==
    LET t == runs[r].target IN
    /\ runs[r].pc \in {"stream", "chunked"}
    /\ UNCHANGED runs
    /\ agentStatusMap' = setAgentStatus(WinOf(t), "idle")
    /\ last' = Last("onError", r, t,
                    <<Ev("updateOutput", t, "system"), Ev("processingComplete", t, "")>>,
                    type)
    /\ UNCHANGED <<sideVars, storeVars, streamVars, agents, pendingApprovals, approvalRequests>>

\* onError with rate_limit_error or overloaded_error: the engine retries
TransientError(r, type) ==
    LET t == runs[r].target IN
    /\ runs[r].pc \in {"stream", "chunked"}
    /\ UNCHANGED runs
    /\ last' = Last("onError", r, t,
                    <<Ev("updateOutput", t, "system"), Ev("rateLimit", t, "isRetrying")>>,
                    type)
    /\ UNCHANGED <<sideVars, storeVars, streamVars, agents, agentStatusMap,
                   pendingApprovals, approvalRequests>>

\* onFallbackStarted
FallbackStarted(r) ==
    LET t == runs[r].target IN
    /\ runs[r].pc \in {"stream", "chunked"}
    /\ UNCHANGED runs
    /\ last' = Last("onFallbackStarted", r, t,
                    <<Ev("fallbackStarted", t, ""), Ev("rateLimit", t, "isRetrying")>>,
                    <<>>)
    /\ UNCHANGED <<sideVars, storeVars, streamVars, agents, agentStatusMap,
                   pendingApprovals, approvalRequests>>

\* onError with any other error: the callback does nothing; the engine ends the run
FatalError(r) ==
    LET t == runs[r].target IN
    /\ runs[r].pc \in {"stream", "chunked"}
    /\ runs' = [runs EXCEPT ![r].pc = "final", ![r].result = "Fatal"]
    /\ last' = Last("onError", r, t, <<>>, "fatal")
    /\ UNCHANGED <<sideVars, storeVars, streamVars, agents, agentStatusMap,
                   pendingApprovals, approvalRequests>>

\* onComplete: trailing segment, clear the buffer, status IDLE, processingComplete
Complete(r) ==
    LET t == runs[r].target
        w == getWindowForTab(t)
        trailing == streamingBuffer # <<>> /\ ~hasToolCall(streamingBuffer)
    IN
    /\ \/ runs[r].pc = "final"
       \/ runs[r].pc = "stream" /\ runs[r].step >= MaxSteps
       \/ runs[r].cancelled /\ runs[r].pc \in EnginePcs \ {"approval"}
    /\ runs' = [runs EXCEPT ![r].pc = "done",
                  ![r].result = IF @ = "Fatal" THEN "FatalCompleted" ELSE "Completed",
                  ![r].fin = IF trailing
                             THEN Append(@, Finalized(currentSegmentId, streamingBuffer))
                             ELSE @,
                  ![r].pcTabs = Append(@, t)]
    /\ streamingBuffer' = <<>>
    /\ agentStatusMap' = IF w # NoId THEN setAgentStatus(w, "idle") ELSE agentStatusMap
    /\ last' = Last("onComplete", r, t,
                    SelectSeq(onCompleteEffects(t, w, trailing, currentSegmentId),
                              LAMBDA e : ~IsInternalEffect(e)),
                    onCompleteEffects(t, w, trailing, currentSegmentId))
    /\ UNCHANGED <<sideVars, storeVars, currentSegmentId, agents, pendingApprovals, approvalRequests>>

\* executePromptWithFallback throws: the catch block of executePrompt
Throw(r) ==
    LET t == runs[r].tabId IN
    /\ runs[r].pc \in {"stream", "chunked"}
    /\ runs' = [runs EXCEPT ![r].pc = "done", ![r].result = "Exception",
                  ![r].pcTabs = Append(@, t), ![r].errors = @ + 1]
    /\ last' = Last("catch", r, t, ErrorAndComplete(t), <<>>)
    /\ UNCHANGED <<sideVars, storeVars, streamVars, agents, agentStatusMap,
                   pendingApprovals, approvalRequests>>

(***************************************************************************)
(* Cancellation                                                            *)
(***************************************************************************)
\* the runs of window w that have not ended
ActiveOn(w) == {r \in Runs : runs[r].pc # "done" /\ runs[r].target # NoId
                             /\ WinOf(runs[r].target) = w}

\* cancelExecution(tabId) on the runs rs: agent.cancel() reaches the runs the
\* engine is executing for the window; processingComplete counts for those in progress
cancelExecution(rs, w) ==
    [r \in Runs |->
        IF r \in ActiveOn(w)
        THEN [rs[r] EXCEPT !.cancelled = @ \/ rs[r].pc \in EnginePcs,
                           !.cancelCompletes = @ + 1]
        ELSE rs[r]]

\* SidePanel handleCancel on the panel of tab t: reject what is pending, then
\* cancelExecution for the tab
HandleCancel(t) ==
    LET w == getWindowForTab(t)
        denied == [r \in Runs |->
                     IF r \in approvalRequests[t] /\ r \in pendingApprovals
                     THEN [runs[r] EXCEPT !.pc = "denied", !.deniedByCancel = TRUE]
                     ELSE runs[r]]
        found == w # NoId /\ agents[w] # "none"
    IN
    /\ approvalRequests[t] # {} \/ ActiveOn(WinOf(t)) # {}
    /\ found => \A r \in ActiveOn(w) : runs[r].cancelCompletes < MaxCancels
    /\ pendingApprovals' = pendingApprovals \ approvalRequests[t]
    /\ approvalRequests' = [approvalRequests EXCEPT ![t] = {}]
    /\ runs' = IF found THEN cancelExecution(denied, w) ELSE denied
    /\ agentStatusMap' = IF found THEN setAgentStatus(w, "idle") ELSE agentStatusMap
    /\ last' = Last("handleCancel", NoId, t,
                    IF found THEN <<Ev("updateOutput", t, "system"),
                                    Ev("processingComplete", t, "")>>
                    ELSE <<>>, approvalRequests[t])
    /\ UNCHANGED <<sideVars, storeVars, streamVars, agents>>

\* a step of a run between the check of the tab state and the engine
Prepare ==
    \/ \E r \in Runs : SetRunning(r)
    \/ \E r \in Runs : UpdateHistory(r)
    \/ \E r \in Runs : AgentCheck(r)

\* a callback of a turn that goes well
Turn ==
    \/ \E r \in Runs, v \in StepTexts : LlmChunk(r, v)
    \/ \E r \in Runs : SegmentComplete(r)
    \/ \E r \in Runs : ToolStart(r)
    \/ \E r \in Runs : LlmOutput(r)
    \/ \E r \in Runs : ToolEnd(r)
    \/ \E r \in Runs : Complete(r)

\* approval of a tool call
Approval ==
    \/ \E r \in Runs : RequestApproval(r)
    \/ \E t \in PanelTabs, r \in Runs, a \in BOOLEAN : HandleApprovalDecision(t, r, a)

\* a backend error
Failure ==
    \/ \E r \in Runs, e \in {"rate_limit_error", "overloaded_error"} : TransientError(r, e)
    \/ \E r \in Runs : FallbackStarted(r)
    \/ \E r \in Runs : FatalError(r)
    \/ \E r \in Runs : Throw(r)

\* no executePrompt call has been made yet
OneCall == Len(runs) < MaxCalls

Next ==
    \/ OneCall /\ \E t \in PanelTabs \cup {NoId}, a \in BOOLEAN, p \in Prompts,
                     i \in RunImages : ExecutePromptNoApiKey(t, a, p, i)
    \/ OneCall /\ \E t \in PanelTabs \cup {NoId}, p \in Prompts, i \in RunImages,
                     ok \in BOOLEAN : ExecutePromptAsk(t, p, i, ok)
    \/ OneCall /\ \E p \in Prompts, i \in RunImages : ExecutePromptNoTab(p, i)
    \/ OneCall /\ \E t \in PanelTabs \cup {NoId}, a \in PanelTabs \cup {NoId},
                     p \in Prompts, i \in RunImages, h \in BOOLEAN,
                     at \in AttachResults, c \in BOOLEAN :
                        ExecutePrompt(t, a, p, i, h, at, c)
    \/ \E t \in PanelTabs, at \in AttachResults, c \in BOOLEAN : InitializeTab(t, at, c)
    \/ OneCall /\ \E p \in ConfigProviders : ProviderConfigChanged(p)
    \/ Prepare
    \/ Turn
    \/ Approval
    \/ Failure
    \/ \E t \in PanelTabs : HandleCancel(t)

Spec == Init /\ [][Next]_vars

(***************************************************************************)
(* Runs side by side: the panels of tabs 1 and 2 are open and initialized, *)
(* prompts are sent from them and every turn goes well.                    *)
(***************************************************************************)
ConcInit ==
    /\ providerConfig = [provider |-> "anthropic", apiKey |-> TRUE]
    /\ tabStates = [t \in Tabs |-> t \in PanelTabs]
    /\ agents = [w \in Windows |-> "anthropic"]
    /\ agentStatusMap = [w \in Windows |-> NoStatusInfo]
    /\ windowMessageHistories = [w \in Windows |-> NoHistory]
    /\ nextRef = 1
    /\ streamingBuffer = <<>>
    /\ currentSegmentId = 0
    /\ runs = <<>>
    /\ pendingApprovals = {}
    /\ approvalRequests = [t \in Tabs |-> {}]
    /\ last = Last("init", NoId, NoId, <<>>, <<>>)
    /\ SideInit

ConcNext ==
    \/ \E t \in PanelTabs, p \in Prompts :
          ExecutePrompt(t, NoId, p, FALSE, TRUE, "true", TRUE)
    \/ Prepare
    \/ Turn

ConcSpec == ConcInit /\ [][ConcNext]_vars

(***************************************************************************)
(* One run in the engine: the prompt of tab 1 has passed the checks of     *)
(* executePrompt (status running, user message stored) and                 *)
(* executePromptWithFallback is about to stream its first turn.            *)
(***************************************************************************)
RunInit ==
    /\ providerConfig = [provider |-> "anthropic", apiKey |-> TRUE]
    /\ tabStates = [t \in Tabs |-> t \in PanelTabs]
    /\ agents = [w \in Windows |-> "anthropic"]
    /\ agentStatusMap = [w \in Windows |-> IF w = WinOf(1) THEN StatusInfo("running", Epoch)
                                          ELSE NoStatusInfo]
    /\ windowMessageHistories =
          [w \in Windows |->
              IF w = WinOf(1)
              THEN [EmptyHistory("anthropic") EXCEPT
                       !.originalRequest = UserMessage("hi", FALSE, NoId),
                       !.conversationHistory = <<UserMessage("hi", FALSE, NoId)>>]
              ELSE NoHistory]
    /\ nextRef = 1
    /\ streamingBuffer = <<>>
    /\ currentSegmentId = 0
    /\ runs = <<[pc |-> "stream", tabId |-> 1, target |-> 1, askMode |-> FALSE,
                 prompt |-> "hi", images |-> FALSE,
                 before |-> [history |-> NoHistory, status |-> "idle", buffer |-> <<>>,
                             segmentId |-> 0],
                 step |-> 0, text |-> "", fed |-> {}, cancelled |-> FALSE,
                 deniedByCancel |-> FALSE, fin |-> <<>>, dispatched |-> {},
                 pcTabs |-> <<>>, cancelCompletes |-> 0, errors |-> 0,
                 result |-> ""]>>
    /\ pendingApprovals = {}
    /\ approvalRequests = [t \in Tabs |-> {}]
    /\ last = Last("agentCheck", 1, 1, <<>>, <<Msg("user", TextContent("hi"))>>)
    /\ SideInit

RunNext ==
    \/ Turn
    \/ Approval
    \/ Failure
    \/ \E t \in PanelTabs : HandleCancel(t)

RunSpec == RunInit /\ [][RunNext]_vars

(***************************************************************************)
(* Ask-mode prompts sent while a run is in the engine for tab 1.           *)
(***************************************************************************)
AskSpec ==
    RunInit /\ [][ \/ \E t \in PanelTabs \cup {NoId}, p \in Prompts, i \in RunImages,
                         ok \in BOOLEAN : ExecutePromptAsk(t, p, i, ok)
                   \/ Turn ]_vars

(***************************************************************************)
(* A run is cancelled and the next prompt is sent from the same panel     *)
(* while the engine is still winding the cancelled run down.               *)
(***************************************************************************)
RestartSpec ==
    RunInit /\ [][ \/ \E p \in Prompts : ExecutePrompt(1, NoId, p, FALSE, TRUE, "true", TRUE)
                   \/ Prepare
                   \/ Turn
                   \/ HandleCancel(1) ]_vars

(***************************************************************************)
(* The status map on its own: setAgentStatus and updateAgentHeartbeat      *)
(* called for any window, with a clock that does not run backwards.        *)
(***************************************************************************)
Times == 1..MaxTime

\* the previous reading of Date.now()
LastTime == IF last.op = "init" THEN 0 ELSE last.ret.now

StatusInit ==
    /\ providerConfig = [provider |-> "anthropic", apiKey |-> TRUE]
    /\ tabStates = [t \in Tabs |-> t # 3]
    /\ agents = [w \in Windows |-> "anthropic"]
    /\ agentStatusMap = [w \in Windows |-> NoStatusInfo]
    /\ windowMessageHistories = [w \in Windows |-> NoHistory]
    /\ nextRef = 1
    /\ streamingBuffer = <<>>
    /\ currentSegmentId = 0
    /\ runs = <<>>
    /\ pendingApprovals = {}
    /\ approvalRequests = [t \in Tabs |-> {}]
    /\ last = Last("init", NoId, NoId, <<>>, <<>>)
    /\ SideInit

SetAgentStatus(w, status, now) ==
    /\ now >= LastTime
    /\ agentStatusMap' = setAgentStatusAt(w, status, now)
    /\ last' = Last("setAgentStatus", NoId, NoId, <<>>, [window |-> w, now |-> now])
    /\ UNCHANGED <<sideVars, storeVars, streamVars, agents, runs, pendingApprovals,
                   approvalRequests>>

UpdateAgentHeartbeat(w, now) ==
    /\ now >= LastTime
    /\ agentStatusMap' = updateAgentHeartbeat(w, now)
    /\ last' = Last("updateAgentHeartbeat", NoId, NoId, <<>>,
                    [window |-> w, now |-> now])
    /\ UNCHANGED <<sideVars, storeVars, streamVars, agents, runs, pendingApprovals,
                   approvalRequests>>

StatusNext ==
    \/ \E w \in Windows, st \in {"idle", "running"}, now \in Times :
          SetAgentStatus(w, st, now)
    \/ \E w \in Windows, now \in Times : UpdateAgentHeartbeat(w, now)

StatusSpec == StatusInit /\ [][StatusNext]_vars

(***************************************************************************)
(* The browser tools.  A tool body returns a string or raises; the outer   *)
(* try/catch of the tool's func turns what was raised into an error string.*)
(***************************************************************************)
Returned(v) == [threw |-> FALSE, value |-> v]
Thrown == [threw |-> TRUE, value |-> "exception"]

\* a func without the outer try/catch: what the body raises reaches the caller
TryCatchMissing(outcome, message) == outcome

\* try { return body } catch (error) { return message }
TryCatch(outcome, message) ==
    IF outcome.threw THEN Returned(message) ELSE outcome

\* what normalizeDomain gives for the page's URL ("throws": it raises)
DomainResults == {"", "shop.example", "news.example", "throws"}

\* a memory write that does not test the domain
storeDismissalMemoryAnyDomain(mem, domain, store) ==
    IF domain # "throws" /\ store = "ok" THEN mem \cup {domain} ELSE mem

\* the memory write after a dismissal: try { normalizeDomain; if (domain)
\* storeMemory } catch { log }; the memories after it
storeDismissalMemory(mem, domain, store) ==
    IF domain = "throws" THEN mem
    ELSE IF domain # "" THEN (IF store = "ok" THEN mem \cup {domain} ELSE mem)
    ELSE mem

\* browser_dismiss_popups.  active: withActivePage finds the page; locator: the
\* locator phase clicked something; fallback: what page.evaluate did; wait: the
\* closing waitForTimeout
BrowserDismissPopups(active, locator, fallback, domain, store, wait) ==
    LET body == IF ~active THEN Thrown
                ELSE IF locator THEN Returned("Dismissed popups")
                ELSE IF fallback = "throws" THEN Thrown
                ELSE IF wait = "throws" THEN Thrown
                ELSE IF fallback = "dismissed" THEN Returned("Dismissed popups (fallback)")
                ELSE Returned("No obvious popups/cookie banners found or clickable.")
        dismissed == active /\ (locator \/ fallback = "dismissed")
    IN
    /\ memories' = IF dismissed THEN storeDismissalMemory(memories, domain, store)
                   ELSE memories
    /\ last' = Last("browser_dismiss_popups", NoId, NoId, <<>>,
                    [result |-> TryCatch(body, "Error dismissing popups"),
                     raised |-> body.threw, dismissed |-> dismissed,
                     phase |-> IF active /\ locator THEN "locator" ELSE "fallback",
                     domain |-> domain, store |-> store, wait |-> wait])
    /\ UNCHANGED <<storeVars, streamVars, runVars, lastDialog, isProcessing, tabStatus, calls, quickPrompt>>

\* inputs of browser_click, character by character: selectors, texts, and
\* texts of 31 and of 50 characters
ClickInputs ==
    {<<"#", "s">>, <<".", "b">>, <<"a", "[", "h", "]">>,
     <<"[", "a", "=", "\"", "b", "\"", "]">>, <<"a", " ", ">", " ", "b">>,
     <<"u", " ", ">", " ", "l", ".", "i">>, <<"O", "K">>, <<"H", "i", " ", "x">>,
     [i \in 1..31 |-> "a"], [i \in 1..50 |-> "a"]}

Includes(input, chars) == \E i \in 1..Len(input) : input[i] \in chars

\* /[#.[*=:>+~]/.test(input); the startsWith tests that follow all need a "["
hasSelectorPatterns(input) ==
    Includes(input, {"#", ".", "[", "*", "=", ":", ">", "+", "~"})

looksLikeText(input) ==
    \/ Len(input) > 30
    \/ Includes(input, {" "}) /\ ~hasSelectorPatterns(input)
    \/ Includes(input, {".", ",", "!", "?", "apostrophe", "\"", "en dash", "em dash"})

\* browser_click.  sel, exact, partial, locator, final are the outcomes of the
\* page operations tried in turn: click(input), getByText exact, getByText
\* partial, locator(text=...) and the last click(input)
BrowserClick(active, input, sel, exact, partial, locator, final) ==
    LET selectorish == hasSelectorPatterns(input) /\ ~looksLikeText(input)
        short == Len(input) < 50 /\ ~Includes(input, {" "})
        body == IF ~active THEN Thrown
                ELSE IF selectorish /\ sel THEN Returned("Clicked selector")
                ELSE IF exact THEN Returned("Clicked element with exact text")
                ELSE IF partial THEN Returned("Clicked element containing text")
                ELSE IF selectorish THEN Thrown
                ELSE IF locator = "clicked" THEN Returned("Clicked element containing text")
                ELSE IF locator = "none" THEN Thrown
                ELSE IF short /\ final THEN Returned("Clicked selector")
                ELSE Thrown
    IN
    /\ last' = Last("browser_click", NoId, NoId, <<>>,
                    [result |-> TryCatch(body, "Error clicking"), raised |-> body.threw,
                     input |-> input,
                     page |-> [active |-> active, selector |-> sel /\ final,
                               text |-> exact \/ partial \/ locator = "clicked"]])
    /\ UNCHANGED <<storeVars, streamVars, runVars, sideVars>>

\* browser_type.  wellFormed: the input splits into a selector and a text
BrowserType(active, wellFormed, fill) ==
    LET body == IF ~active THEN Thrown
                ELSE IF ~wellFormed THEN Returned("Error: expected selector|text")
                ELSE IF ~fill THEN Thrown
                ELSE Returned("Typed")
    IN
    /\ last' = Last("browser_type", NoId, NoId, <<>>,
                    [result |-> TryCatch(body, "Error typing into"), raised |-> body.threw])
    /\ UNCHANGED <<storeVars, streamVars, runVars, sideVars>>

\* the dialog listener records a dialog the page opened
DialogOpens(type) ==
    /\ lastDialog' = type
    /\ last' = Last("dialog", NoId, NoId, <<>>, [result |-> Returned(type), raised |-> FALSE])
    /\ UNCHANGED <<storeVars, streamVars, runVars, memories, isProcessing, tabStatus, calls, quickPrompt>>

\* browser_handle_dialog.  action: the first part of the input; answered: the
\* dialog's accept() / dismiss() went through
BrowserHandleDialog(action, answered) ==
    LET body == IF lastDialog = "none"
                THEN Returned("Error: no dialog is currently open or was detected.")
                ELSE IF action \notin {"accept", "dismiss"}
                THEN Returned("Error: first part must be accept or dismiss.")
                ELSE IF ~answered THEN Thrown
                ELSE Returned(<<action, lastDialog>>)
        handled == lastDialog # "none" /\ action \in {"accept", "dismiss"} /\ answered
    IN
    /\ lastDialog' = IF handled THEN "none" ELSE lastDialog
    /\ last' = Last("browser_handle_dialog", NoId, NoId, <<>>,
                    [result |-> TryCatch(body, "Error handling dialog"),
                     raised |-> body.threw])
    /\ UNCHANGED <<storeVars, streamVars, runVars, memories, isProcessing, tabStatus, calls, quickPrompt>>

ToolInit ==
    /\ providerConfig = [provider |-> "anthropic", apiKey |-> TRUE]
    /\ tabStates = [t \in Tabs |-> t # 3]
    /\ agents = [w \in Windows |-> "anthropic"]
    /\ agentStatusMap = [w \in Windows |-> NoStatusInfo]
    /\ windowMessageHistories = [w \in Windows |-> NoHistory]
    /\ nextRef = 1
    /\ streamingBuffer = <<>>
    /\ currentSegmentId = 0
    /\ runs = <<>>
    /\ pendingApprovals = {}
    /\ approvalRequests = [t \in Tabs |-> {}]
    /\ last = Last("init", NoId, NoId, <<>>, <<>>)
    /\ SideInit

ToolNext ==
    \/ \E active, locator \in BOOLEAN, fallback \in {"dismissed", "nothing", "throws"},
          domain \in DomainResults, store, wait \in {"ok", "throws"} :
          BrowserDismissPopups(active, locator, fallback, domain, store, wait)
    \/ \E active, sel, exact, partial, final \in BOOLEAN, input \in ClickInputs,
          locator \in {"clicked", "none", "throws"} :
          BrowserClick(active, input, sel, exact, partial, locator, final)
    \/ \E active, wellFormed, fill \in BOOLEAN : BrowserType(active, wellFormed, fill)
    \/ \E type \in {"alert", "confirm"} : DialogOpens(type)
    \/ \E action \in {"accept", "dismiss", "other"}, answered \in BOOLEAN :
          BrowserHandleDialog(action, answered)

ToolSpec == ToolInit /\ [][ToolNext]_vars

(***************************************************************************)
(* The side panel: handleSubmit and the handlers of the messages that the  *)
(* background sends, on the panel's isProcessing and tabStatus.            *)
(***************************************************************************)
MAX_IMAGES == 3000
MAX_PDFS == 3

\* how many image files and PDF files a submission attaches
ImageCounts == {0, 1, MAX_IMAGES, MAX_IMAGES + 1}
PdfCounts == {0, MAX_PDFS, MAX_PDFS + 1}
\* what the first image file that fails a check fails: its MIME type, its size
ImageFaults == {"none", "mime", "size"}

\* the way handleSubmit takes through its checks (lines 1191-1231)
SubmitPath(imageFiles, pdfFiles, fault) ==
    IF imageFiles > MAX_IMAGES THEN "tooManyImages"
    ELSE IF pdfFiles > MAX_PDFS THEN "tooManyPdfs"
    ELSE IF imageFiles > 0 /\ fault = "mime" THEN "unsupportedFormat"
    ELSE IF imageFiles > 0 /\ fault = "size" THEN "imageTooLarge"
    ELSE "send"

\* handleSubmit(prompt, files): setIsProcessing(true), setTabStatus(running),
\* the checks of the files, then executePrompt, which throws or not
HandleSubmit(imageFiles, pdfFiles, fault, throws) ==
    LET path == SubmitPath(imageFiles, pdfFiles, fault) IN
    /\ isProcessing' = IF path = "send" /\ throws THEN FALSE ELSE TRUE
    /\ tabStatus' = IF path = "send" /\ throws THEN "error" ELSE "running"
    /\ last' = Last("handleSubmit", NoId, NoId,
                    IF path = "send" /\ ~throws
                    THEN <<Ev("executePrompt", NoId, "")>> ELSE <<>>,
                    [path |-> path, thrown |-> path = "send" /\ throws,
                     imageFiles |-> imageFiles, pdfFiles |-> pdfFiles])
    /\ UNCHANGED <<memories, lastDialog, calls, quickPrompt, storeVars, streamVars, runVars>>

\* onProcessingComplete
OnProcessingComplete ==
    /\ isProcessing' = FALSE
    /\ tabStatus' = "idle"
    /\ last' = Last("onProcessingComplete", NoId, NoId, <<>>, <<>>)
    /\ UNCHANGED <<memories, lastDialog, calls, quickPrompt, storeVars, streamVars, runVars>>

\* onRateLimit and onFallbackStarted: the panel stays in processing mode
OnRetry(event) ==
    /\ isProcessing' = TRUE
    /\ tabStatus' = "running"
    /\ last' = Last(event, NoId, NoId, <<>>, <<>>)
    /\ UNCHANGED <<memories, lastDialog, calls, quickPrompt, storeVars, streamVars, runVars>>

\* onTabStatusChanged(status)
OnTabStatusChanged(status) ==
    /\ tabStatus' = status
    /\ last' = Last("onTabStatusChanged", NoId, NoId, <<>>, status)
    /\ UNCHANGED <<memories, lastDialog, calls, quickPrompt, isProcessing, storeVars, streamVars, runVars>>

\* onAgentStatusUpdate(status, lastHeartbeat)
OnAgentStatusUpdate(status) ==
    /\ tabStatus' = IF status \in {"running", "idle", "error"} THEN status ELSE tabStatus
    /\ isProcessing' = IF status = "running" THEN TRUE
                       ELSE IF status = "idle" THEN FALSE ELSE isProcessing
    /\ last' = Last("onAgentStatusUpdate", NoId, NoId, <<>>, status)
    /\ UNCHANGED <<memories, lastDialog, calls, quickPrompt, storeVars, streamVars, runVars>>

PanelNext ==
    \/ \E i \in ImageCounts, p \in PdfCounts, f \in ImageFaults, throws \in BOOLEAN :
          HandleSubmit(i, p, f, throws)
    \/ OnProcessingComplete
    \/ \E e \in {"onRateLimit", "onFallbackStarted"} : OnRetry(e)
    \/ \E st \in {"attached", "detached", "running", "idle", "error"} :
          OnTabStatusChanged(st)
    \/ \E st \in {"running", "idle", "error", "paused"} : OnAgentStatusUpdate(st)

PanelSpec == Init /\ [][PanelNext]_vars

(***************************************************************************)
(* The side panel of tab 2 beside the background: the panel submits, the   *)
(* background takes the prompt as the next message, and while the panel is *)
(* processing its heartbeat asks the background for its window's status.   *)
(***************************************************************************)
\* one tick of the heartbeat interval (part_001, lines 926-940), answered by
\* handleCheckAgentStatus with getAgentStatus of the tab's window, the status
\* reaching the panel's onAgentStatusUpdate
CheckAgentStatus(tabId) ==
    /\ isProcessing
    /\ OnAgentStatusUpdate(getAgentStatus(WinOf(tabId)))

PollSpec ==
    RunInit /\ [][ \/ HandleSubmit(0, 0, "none", FALSE)
                   \/ /\ last.op = "handleSubmit"
                      /\ \E p \in Prompts : ExecutePrompt(2, NoId, p, FALSE, TRUE, "true", TRUE)
                   \/ /\ last.op = "handleSubmit"
                      /\ \E p \in Prompts, ok \in BOOLEAN : ExecutePromptAsk(2, p, FALSE, ok)
                   \/ Prepare
                   \/ Turn
                   \/ (\E i \in 1..Len(last.out) :
                          /\ last.out[i].action = "processingComplete"
                          /\ last.out[i].tab = 2) /\ OnProcessingComplete
                   \/ CheckAgentStatus(2) ]_vars

(***************************************************************************)
(* The background's message listener: the type guard and the switch of     *)
(* handleMessage.  The handlers the cases start are the actions above; a   *)
(* step here is the dispatch alone: the branch taken, the response sent    *)
(* by handleMessage itself and the value it returns.                       *)
(***************************************************************************)
\* the actions isBackgroundMessage lets through
GuardActions ==
    {"executePrompt", "cancelExecution", "clearHistory", "initializeTab",
     "switchToTab", "getTokenUsage", "approvalResponse", "reflectAndLearn",
     "tokenUsageUpdated", "updateOutput", "providerConfigChanged",
     "tabStatusChanged", "targetCreated", "targetDestroyed", "targetChanged",
     "agentStatusUpdate", "updateStreamingChunk", "finalizeStreamingSegment",
     "startNewSegment", "streamingComplete", "updateLlmOutput", "rateLimit",
     "fallbackStarted", "updateScreenshot", "processingComplete", "setPrompt",
     "checkAgentStatus", "forceResetPlaywright", "requestApproval", "quickPrompt",
     "openSidePanel"}

\* the actions the switch of handleMessage has a case for
SwitchCases ==
    {"executePrompt", "cancelExecution", "clearHistory", "initializeTab",
     "switchToTab", "getTokenUsage", "approvalResponse", "reflectAndLearn",
     "tokenUsageUpdated", "updateOutput", "setPrompt", "openSidePanel",
     "quickPrompt", "providerConfigChanged", "forceResetPlaywright",
     "requestApproval", "checkAgentStatus"}

\* the cases that answer { success: true } themselves, before returning
AnsweredInCase ==
    {"approvalResponse", "tokenUsageUpdated", "updateOutput", "setPrompt",
     "providerConfigChanged", "requestApproval"}

\* what a sender can put on the channel: no object, an object without an
\* action, an object with an action (one nobody knows among them)
Message(kind, action, tabId) == [kind |-> kind, action |-> action, tabId |-> tabId]

Messages ==
    {Message(k, "", NoId) : k \in {"null", "string", "noAction"}}
    \cup {Message("object", a, t) : a \in GuardActions \cup SwitchCases \cup {"bogus"},
                                    t \in PanelTabs \cup {NoId}}

isBackgroundMessage(message) ==
    /\ message.kind \notin {"null", "string"}
    /\ message.kind # "noAction"
    /\ message.action \in GuardActions

Response(success, error) == [success |-> success, error |-> error]
NoResponse == [success |-> "none", error |-> ""]

\* handleMessage(message, sender, sendResponse)
HandleMessage(message) ==
    LET branch == IF ~isBackgroundMessage(message) THEN "guard"
                  ELSE IF message.action \in SwitchCases THEN message.action
                  ELSE "default"
        response == IF branch = "guard" THEN Response(FALSE, "Unknown message type")
                    ELSE IF branch = "default"
                    THEN Response(FALSE, "Unhandled message action")
                    ELSE IF branch \in AnsweredInCase THEN Response(TRUE, "")
                    ELSE NoResponse
    IN
    /\ last' = Last("handleMessage", NoId, message.tabId, <<>>,
                    [message |-> message, branch |-> branch, response |-> response,
                     returns |-> branch \notin {"guard", "default"}])
    /\ UNCHANGED <<sideVars, storeVars, streamVars, runVars>>

MsgNext == \E message \in Messages : HandleMessage(message)

MsgSpec == Init /\ [][MsgNext]_vars

(***************************************************************************)
(* LlmContent: the content of an assistant message is split into text      *)
(* parts and tool parts.  A content is a sequence of chunks, each a run of *)
(* plain text, one <tool>..</tool><input>..</input> directive, or one      *)
(* joystick-emoji tool call; a chunk's place in the sequence stands for    *)
(* its index in the string.                                                *)
(***************************************************************************)
RECURSIVE ExecLoop(_, _, _, _)
\* while ((match = regex.exec(contentCopy)) !== null) { .. } from chunk i on,
\* for the regex that matches the chunks of this kind (lines 30-46, 50-68):
\* text before the match if match.index > lastIndex, the match as a tool part,
\* lastIndex = match.index + match[0].length
ExecLoop(state, contentCopy, kind, i) ==
    IF i > Len(contentCopy) THEN state
    ELSE IF contentCopy[i] # kind THEN ExecLoop(state, contentCopy, kind, i + 1)
    ELSE ExecLoop(
            [parts |-> (IF i - 1 > state.lastIndex
                        THEN Append(state.parts,
                                    [type |-> "text",
                                     content |-> SubSeq(contentCopy, state.lastIndex + 1, i - 1)])
                        ELSE state.parts)
                       \o <<[type |-> "tool", content |-> <<kind>>]>>,
             lastIndex |-> i],
            contentCopy, kind, i + 1)

\* lines 11-85: the directives first, then the emoji tool calls, both loops
\* on the same parts and lastIndex; then the rest of the text
LlmContentParts(content) ==
    LET directives == ExecLoop([parts |-> <<>>, lastIndex |-> 0], content, "directive", 1)
        emojis == ExecLoop(directives, content, "emoji", 1)
        parts == IF emojis.lastIndex < Len(content)
                 THEN Append(emojis.parts,
                             [type |-> "text",
                              content |-> SubSeq(content, emojis.lastIndex + 1, Len(content))])
                 ELSE emojis.parts
    IN  IF parts = <<>> THEN <<[type |-> "text", content |-> content]>> ELSE parts

\* the component is rendered with a content
LlmContent(content) ==
    /\ last' = Last("LlmContent", NoId, NoId, <<>>,
                    [content |-> content, parts |-> LlmContentParts(content)])
    /\ UNCHANGED <<sideVars, storeVars, streamVars, runVars>>

LlmSpec ==
    Init /\ [][ \E n \in 0..MaxContent :
                   \E content \in [1..n -> {"text", "directive", "emoji"}] :
                      LlmContent(content) ]_vars

(***************************************************************************)
(* The quick-prompt content script: the chip shown beside a selection and  *)
(* the prompt panel it opens.  quickPrompt holds, as booleans, whether the *)
(* chip and the panel exist, whether the two timers are pending and        *)
(* whether the panel's outside-click listener is registered.               *)
(***************************************************************************)
\* handleTextSelection on mouseup or keyup (lines 304-310); elapsed: the clock
\* has passed suppressSelectionUntil
HandleTextSelection(elapsed) ==
    LET until == IF elapsed THEN "past" ELSE quickPrompt.suppressSelectionUntil
        returns == quickPrompt.isPromptOpen \/ quickPrompt.isInteracting \/ until = "future"
    IN
    /\ quickPrompt' = [quickPrompt EXCEPT !.suppressSelectionUntil = until,
                                          !.selectionTimeout = IF returns THEN @ ELSE TRUE]
    /\ last' = Last("handleTextSelection", NoId, NoId, <<>>, returns)
    /\ UNCHANGED <<memories, lastDialog, isProcessing, tabStatus, calls, storeVars,
                   streamVars, runVars>>

\* the debounce timer of handleTextSelection fires (lines 312-336); text: the
\* selection is not empty, and createQuickPromptButton (lines 44-116) shows the
\* chip and starts its 10-second timer
SelectionTimeout(text) ==
    /\ quickPrompt.selectionTimeout
    /\ quickPrompt' =
          IF quickPrompt.isPromptOpen
          THEN [quickPrompt EXCEPT !.selectionTimeout = FALSE]
          ELSE IF text
          THEN [quickPrompt EXCEPT !.selectionTimeout = FALSE,
                                   !.quickPromptButton = TRUE,
                                   !.quickPromptButtonTimeout = TRUE]
          ELSE [quickPrompt EXCEPT !.selectionTimeout = FALSE,
                                   !.quickPromptButton =
                                       IF @ /\ ~quickPrompt.isInteracting THEN FALSE ELSE @]
    /\ last' = Last("selectionTimeout", NoId, NoId, <<>>, text)
    /\ UNCHANGED <<memories, lastDialog, isProcessing, tabStatus, calls, storeVars,
                   streamVars, runVars>>

\* suppress: pointerdown or mousedown on the chip (lines 68-83)
Suppress ==
    /\ quickPrompt.quickPromptButton
    /\ quickPrompt' = [quickPrompt EXCEPT !.isInteracting = TRUE,
                                          !.suppressSelectionUntil = "future"]
    /\ last' = Last("suppress", NoId, NoId, <<>>, <<>>)
    /\ UNCHANGED <<memories, lastDialog, isProcessing, tabStatus, calls, storeVars,
                   streamVars, runVars>>

\* handleQuickPrompt: click, Enter or space on the chip (lines 84-103, 119-140);
\* showPromptPanel adds the panel and registers outsideClick (lines 143-276)
HandleQuickPrompt ==
    /\ quickPrompt.quickPromptButton
    /\ quickPrompt' = [quickPrompt EXCEPT !.isPromptOpen = TRUE,
                                          !.panel = TRUE,
                                          !.outsideClick = TRUE,
                                          !.quickPromptButtonTimeout = FALSE,
                                          !.quickPromptButton = FALSE]
    /\ last' = Last("handleQuickPrompt", NoId, NoId, <<>>, <<>>)
    /\ UNCHANGED <<memories, lastDialog, isProcessing, tabStatus, calls, storeVars,
                   streamVars, runVars>>

\* the chip's 10-second timer fires (lines 108-115)
QuickPromptButtonTimeout ==
    /\ quickPrompt.quickPromptButtonTimeout
    /\ quickPrompt' = [quickPrompt EXCEPT !.quickPromptButtonTimeout = FALSE,
                                          !.quickPromptButton =
                                              IF @ /\ ~quickPrompt.isPromptOpen THEN FALSE ELSE @]
    /\ last' = Last("quickPromptButtonTimeout", NoId, NoId, <<>>, <<>>)
    /\ UNCHANGED <<memories, lastDialog, isProcessing, tabStatus, calls, storeVars,
                   streamVars, runVars>>

\* closePanel (lines 230-234), called by Escape and submit in the panel
\* (lines 236-264) and by outsideClick, a mousedown outside the shadow host,
\* which then removes itself (lines 267-274)
ClosePanel(caller) ==
    /\ IF caller = "outsideClick" THEN quickPrompt.outsideClick ELSE quickPrompt.panel
    /\ quickPrompt' = [quickPrompt EXCEPT !.isPromptOpen = FALSE,
                                          !.isInteracting = FALSE,
                                          !.panel = FALSE,
                                          !.outsideClick = IF caller = "outsideClick"
                                                           THEN FALSE ELSE @]
    /\ last' = Last("closePanel", NoId, NoId, <<>>, caller)
    /\ UNCHANGED <<memories, lastDialog, isProcessing, tabStatus, calls, storeVars,
                   streamVars, runVars>>

\* the document's click listener, for a click outside the chip (lines 346-351)
DocumentClick ==
    /\ quickPrompt' = [quickPrompt EXCEPT !.quickPromptButton = FALSE]
    /\ last' = Last("documentClick", NoId, NoId, <<>>, <<>>)
    /\ UNCHANGED <<memories, lastDialog, isProcessing, tabStatus, calls, storeVars,
                   streamVars, runVars>>

QuickSpec ==
    Init /\ [][ \/ \E elapsed \in BOOLEAN : HandleTextSelection(elapsed)
                \/ \E text \in BOOLEAN : SelectionTimeout(text)
                \/ Suppress
                \/ HandleQuickPrompt
                \/ QuickPromptButtonTimeout
                \/ \E caller \in {"escape", "submit", "outsideClick"} : ClosePanel(caller)
                \/ DocumentClick ]_vars

(***************************************************************************)
(* Properties                                                              *)
(***************************************************************************)
\* the history onLlmOutput has just appended to and trimmed
TrimmedConv == ConvOf(windowMessageHistories, last.tab)

\* C1: after onLlmOutput has appended the assistant message and trimmed, the
\* token count of the window's conversationHistory is at most
\* MAX_CONVERSATION_TOKENS, or the history holds exactly one message.
C1_TrimWithinBudget ==
    (last.op = "onLlmOutput" /\ getWindowForTab(last.tab) # NoId) =>
        \/ contextTokenCount(TrimmedConv) <= MAX_CONVERSATION_TOKENS
        \/ Len(TrimmedConv) = 1

\* an onLlmOutput that evicted messages and left several within the budget
C1_Witness ==
    /\ last.op = "onLlmOutput"
    /\ getWindowForTab(last.tab) # NoId
    /\ Len(TrimmedConv) < last.ret + 1
    /\ Len(TrimmedConv) >= 2
    /\ contextTokenCount(TrimmedConv) <= MAX_CONVERSATION_TOKENS

\* C2: when originalRequest is set and conversationHistory[0] has the same
\* role and structurally equal content, getMessageHistory returns the
\* converted conversationHistory alone (the original request once).
C2_NoDuplicateOriginal ==
    LET w == getWindowForTab(last.tab)
        history == windowMessageHistories[w]
    IN  (/\ last.op = "getMessageHistory"
         /\ w # NoId
         /\ history.originalRequest # None
         /\ Len(history.conversationHistory) > 0
         /\ history.conversationHistory[1].role = history.originalRequest.role
         /\ StructurallyEqual(history.conversationHistory[1].content,
                              history.originalRequest.content))
        => last.ret = convertMessagesToProviderFormat(history.conversationHistory,
                                                      getCurrentProvider)

\* C3: within one run the segment ids passed to finalizeStreamingSegment, by
\* onSegmentComplete and by the trailing finalization of onComplete, are
\* 0, 1, 2, ... in the order of finalization: strictly increasing, no gap.
C3_SegmentIdsGapless ==
    \A r \in Runs :
        \A i \in 1..Len(runs[r].fin) : runs[r].fin[i].id = i - 1

\* the segments run r had finalized that hold the text k
FinalizedWith(r, k) ==
    {i \in 1..Len(runs[r].fin) :
        \E j \in 1..Len(runs[r].fin[i].content) : runs[r].fin[i].content[j] = k}

\* C4: when a run has completed, every text it was fed is either a directive
\* that was dispatched and never finalized as prose, or prose that was
\* finalized exactly once; never both, never neither.
C4_DispatchedOrFinalizedOnce ==
    \A r \in Runs :
        (runs[r].pc = "done" /\ runs[r].result = "Completed") =>
            \A k \in runs[r].fed :
                IF IsDirective(k.val)
                THEN k.step \in runs[r].dispatched /\ FinalizedWith(r, k) = {}
                ELSE Cardinality(FinalizedWith(r, k)) = 1

\* the processingComplete events emitted for run r so far: by cancelExecution
\* while the run was in progress, and by executePrompt and its callbacks
ProcessingCompletes(r) == runs[r].cancelCompletes + Len(runs[r].pcTabs)

\* C5: when the panel cancels a run whose tool call awaits approval, the
\* request is no longer pending (auto-denied), the status of the window is
\* idle, and processingComplete is emitted once for that run, the onComplete
\* of the cancelled run included: never twice, and once when the run is done.
C5_CancelWhileAwaitingApproval ==
    \A r \in Runs :
        runs[r].deniedByCancel =>
            /\ r \notin pendingApprovals
            /\ agentStatusMap[WinOf(runs[r].target)].status = "idle"
            /\ ProcessingCompletes(r) <= 1
            /\ runs[r].pc = "done" => ProcessingCompletes(r) = 1

\* the events of the last operation with this action
Emitted(action) == {i \in 1..Len(last.out) : last.out[i].action = action}

\* C6: a step that is onError with rate_limit_error or overloaded_error, or
\* onFallbackStarted, emits rateLimit(isRetrying) to the run's tab (and
\* fallbackStarted, for onFallbackStarted), leaves every window's status as
\* it was and emits no processingComplete.
C6_TransientKeepsProcessing ==
    [][ ( \/ last'.op = "onError" /\ last'.ret \in {"rate_limit_error", "overloaded_error"}
          \/ last'.op = "onFallbackStarted" )
        => /\ \E i \in 1..Len(last'.out) :
                  last'.out[i] = Ev("rateLimit", runs[last'.run].target, "isRetrying")
           /\ last'.op = "onFallbackStarted" =>
                  \E i \in 1..Len(last'.out) :
                      last'.out[i] = Ev("fallbackStarted", runs[last'.run].target, "")
           /\ \A i \in 1..Len(last'.out) : last'.out[i].action # "processingComplete"
           /\ agentStatusMap' = agentStatusMap
           /\ runs' = runs ]_vars

\* a rate limit error reported while the window is running, its run still streaming
C6_Witness ==
    /\ last.op = "onError"
    /\ last.ret = "rate_limit_error"
    /\ agentStatusMap[WinOf(last.tab)].status = "running"
    /\ runs[last.run].pc = "chunked"
    /\ Emitted("rateLimit") # {}

\* the tab a call executes its prompt for: the resolved target, else the argument
ExecutedFor(r) == IF runs[r].target # NoId THEN runs[r].target ELSE runs[r].tabId

\* C7: every executePrompt that ended after showing an error has emitted a
\* processingComplete addressed to the tab the prompt was executed for.
C7_ErrorCompletesOnTab ==
    \A r \in Runs :
        (runs[r].pc = "done" /\ runs[r].errors > 0 /\ ExecutedFor(r) # NoId) =>
            \E i \in 1..Len(runs[r].pcTabs) : runs[r].pcTabs[i] = ExecutedFor(r)

\* C8: a run that set the status to running and ended by completion, by a
\* fatal error or in the catch block leaves the status of its window idle,
\* and a fatal error was shown as exactly one error message.
C8_EndsIdle ==
    \A r \in Runs :
        (runs[r].pc = "done"
            /\ runs[r].result \in {"Completed", "FatalCompleted", "Exception"}) =>
            /\ agentStatusMap[WinOf(runs[r].target)].status = "idle"
            /\ runs[r].result = "FatalCompleted" => runs[r].errors = 1

\* C9: a call that ended with the NoAgent error has not set the status of
\* the window to running.
C9_NoAgentKeepsIdle ==
    \A r \in Runs :
        runs[r].result = "NoAgent" =>
            agentStatusMap[WinOf(runs[r].target)].status # "running"

\* C10: when a call has just ended with NoAgent or NoWindow, the original
\* request and the conversation history of the window, the streaming buffer
\* and the segment id are what the call found.
C10_FailedCallChangesNothing ==
    (last.op = "agentCheck" /\ runs[last.run].result \in {"NoAgent", "NoWindow"}) =>
        LET r == last.run
            history == windowMessageHistories[WinOf(runs[r].target)]
        IN  /\ history.originalRequest = runs[r].before.history.originalRequest
            /\ history.conversationHistory = runs[r].before.history.conversationHistory
            /\ streamingBuffer = runs[r].before.buffer
            /\ currentSegmentId = runs[r].before.segmentId

\* the status getAgentStatus reads for window w after the step
StatusAfter(w) ==
    IF agentStatusMap'[w].status = "none" THEN "idle" ELSE agentStatusMap'[w].status

\* C11: a window's status goes from idle to running only by executePrompt
\* and from running to idle only by onComplete or cancelExecution, and a
\* call of executePrompt that found the status of its window running does
\* not start a run (set RUNNING and go on): a window that is running gets
\* no second run.
C11_StatusCycle ==
    [][ /\ \A w \in Windows :
              getAgentStatus(w) # StatusAfter(w) =>
                  \/ /\ getAgentStatus(w) = "idle" /\ StatusAfter(w) = "running"
                     /\ last'.op = "setRunning"
                  \/ /\ getAgentStatus(w) = "running" /\ StatusAfter(w) = "idle"
                     /\ last'.op \in {"onComplete", "handleCancel"}
        /\ \A r \in Runs :
              (runs[r].pc = "setRunning" /\ runs'[r].pc = "history") =>
                  runs[r].before.status = "idle" ]_vars

\* run a is between its resetStreamingState and its onComplete
Streaming(a) == runs[a].pc \in {"history", "agentCheck"} \cup EnginePcs

\* C12: a step of a run B leaves the streaming buffer and the segment id as
\* they are for every run A of another window that is between its reset and
\* its onComplete, and every segment finalized for a run holds only text
\* streamed for that run.
C12_WindowsDoNotInterfere ==
    [][ /\ \A a \in Runs :
              ( /\ last'.run \in Runs /\ last'.run # a
                /\ WinOf(runs[a].target) # WinOf(runs[last'.run].target)
                /\ Streaming(a) ) =>
                  /\ streamingBuffer' = streamingBuffer
                  /\ currentSegmentId' = currentSegmentId
        /\ \A r \in Runs : \A i \in 1..Len(runs'[r].fin) :
              \A j \in 1..Len(runs'[r].fin[i].content) :
                  runs'[r].fin[i].content[j].run = r ]_vars

\* C13: a clearMessageHistory that is given a tab or a window leaves the
\* history of every window other than the referenced one as it was, and
\* resets the referenced window, when there is one, to no original request
\* and an empty conversation history.
C13_ClearOnlyReferencedWindow ==
    [][ ( /\ last'.op = "clearMessageHistory"
          /\ last'.tab # NoId \/ last'.ret # NoId ) =>
            LET w == IF last'.ret # NoId THEN last'.ret ELSE getWindowForTab(last'.tab)
            IN  /\ \A x \in Windows \ {w} :
                      windowMessageHistories'[x] = windowMessageHistories[x]
                /\ w # NoId =>
                      /\ windowMessageHistories'[w].originalRequest = None
                      /\ windowMessageHistories'[w].conversationHistory = <<>> ]_vars

\* C14: a cancel issued from a panel while a run is in progress for its tab
\* has emitted processingComplete and leaves the status of the window idle.
C14_CancelCompletesAtOnce ==
    ( /\ last.op = "handleCancel"
      /\ \E r \in Runs : runs[r].pc # "done" /\ runs[r].target = last.tab ) =>
        /\ Emitted("processingComplete") # {}
        /\ getAgentStatus(WinOf(last.tab)) = "idle"

\* C15: once cancelExecution has reached a run, a later callback of that run
\* (onLlmOutput, onSegmentComplete, onToolOutput, onComplete) appends nothing to
\* the conversation history and emits no event.
C15_LateResultsDiscarded ==
    [][ \A r \in Runs :
          ( /\ runs[r].cancelled
            /\ last'.run = r
            /\ last'.op \in {"onLlmOutput", "onSegmentComplete", "onToolOutput",
                              "onComplete"} ) =>
              /\ windowMessageHistories' = windowMessageHistories
              /\ last'.out = <<>> ]_vars

\* the history update of executePrompt took the step, for a tab of window w
PromptStoredFor(w) ==
    /\ last'.op = "updateHistory"
    /\ getWindowForTab(last'.tab) = w

\* the first-prompt outcome: the message is the original request and the only
\* stored message, and getMessageHistory hands out that one user message
StoredAsFirst(w) ==
    /\ windowMessageHistories'[w].originalRequest = last'.ret
    /\ windowMessageHistories'[w].conversationHistory = <<last'.ret>>
    /\ Len(getMessageHistoryResult(windowMessageHistories', last'.tab)) = 1
    /\ getMessageHistoryResult(windowMessageHistories', last'.tab)[1].role = "user"
    /\ getMessageHistoryResult(windowMessageHistories', last'.tab)[1].content
          = last'.ret.content

\* the follow-up outcome: original request kept, message appended at the end
AppendedAsFollowUp(w) ==
    /\ windowMessageHistories'[w].originalRequest
          = windowMessageHistories[w].originalRequest
    /\ windowMessageHistories'[w].conversationHistory
          = Append(windowMessageHistories[w].conversationHistory, last'.ret)

ActedOnMissing(w) ==
    /\ last'.op \in {"getMessageHistory", "updateHistory", "onLlmOutput"}
    /\ getWindowForTab(last'.tab) = w
    /\ ~windowMessageHistories[w].has

\* C17: a store operation for a window that has no history yet creates an empty
\* history for it and works on that: getMessageHistory returns the empty list,
\* setOriginalRequest / addToConversationHistory leave their message stored.
C17_LazyCreation ==
    [][ \A w \in Windows : ActedOnMissing(w) =>
          /\ windowMessageHistories'[w].has
          /\ windowMessageHistories'[w].provider = getCurrentProvider
          /\ last'.op = "getMessageHistory" =>
                /\ windowMessageHistories'[w] = EmptyHistory(getCurrentProvider)
                /\ last'.ret = <<>>
          /\ last'.op = "updateHistory" =>
                /\ windowMessageHistories'[w].originalRequest = last'.ret
                /\ windowMessageHistories'[w].conversationHistory = <<last'.ret>>
          /\ last'.op = "onLlmOutput" =>
                /\ windowMessageHistories'[w].originalRequest = None
                /\ windowMessageHistories'[w].conversationHistory
                      = <<Msg("assistant", TextContent(streamingBuffer'[1].val))>> ]_vars

\* an assistant message was appended for a window while the other window has
\* no history yet, and it is the only content of its window's history
C17_Witness ==
    /\ last.op = "onLlmOutput"
    /\ getWindowForTab(last.tab) # NoId
    /\ last.ret = 0
    /\ windowMessageHistories[getWindowForTab(last.tab)].has
    /\ windowMessageHistories[getWindowForTab(last.tab)].originalRequest = None
    /\ Len(windowMessageHistories[getWindowForTab(last.tab)].conversationHistory) = 1
    /\ \E x \in Windows : ~windowMessageHistories[x].has

WellFormed(content) == content.kind \in {"text", "blocks"}

\* C18: setting or appending a message whose content is neither a string nor a
\* block array leaves the histories unchanged, and no such message is in a list
\* getMessageHistory returns.
C18_MalformedRejected ==
    [][ /\ ( /\ last'.op \in {"setOriginalRequest", "addToConversationHistory"}
              /\ ~WellFormed(last'.ret.content) ) =>
                 windowMessageHistories' = windowMessageHistories
        /\ last'.op = "getMessageHistory" =>
              \A i \in 1..Len(last'.ret) : WellFormed(last'.ret[i].content) ]_vars

\* the list the last getMessageHistory call converted
Converted == MessagesToConvert(windowMessageHistories[getWindowForTab(last.tab)])

\* C20: for every provider and every message list the conversion keeps length
\* and order, maps assistant to assistant and every other role to user, and
\* passes content through; for gemini a block array is rebuilt with equal data.
C20_ConversionKeepsShape ==
    (last.op = "getMessageHistory" /\ getWindowForTab(last.tab) # NoId) =>
        /\ Len(last.ret) = Len(Converted)
        /\ \A i \in 1..Len(Converted) :
              /\ last.ret[i].role \in {"user", "assistant"}
              /\ last.ret[i].role = "assistant" <=> Converted[i].role = "assistant"
              /\ StructurallyEqual(last.ret[i].content, Converted[i].content)
              /\ (getCurrentProvider # "gemini" \/ Converted[i].content.kind # "blocks")
                    => last.ret[i].content = Converted[i].content

\* a list with a system message, then other messages, was converted for a
\* provider outside the four named ones
C20_Witness ==
    /\ last.op = "getMessageHistory"
    /\ getWindowForTab(last.tab) # NoId
    /\ getCurrentProvider = "unknown"
    /\ Len(Converted) >= 2
    /\ Converted[1].role = "system"
    /\ last.ret[1].role = "user"
    /\ Converted[2].role = "assistant"

\* C19: updateAgentHeartbeat sets lastHeartbeat of the window to the current
\* time when the recorded status is running and changes nothing otherwise; the
\* status and the timestamp of the window, and every other window, stay as
\* they were.
C19_HeartbeatOnlyWhileRunning ==
    [][ last'.op = "updateAgentHeartbeat" =>
          LET w == last'.ret.window IN
          /\ \A x \in Windows \ {w} : agentStatusMap'[x] = agentStatusMap[x]
          /\ agentStatusMap'[w].status = agentStatusMap[w].status
          /\ agentStatusMap'[w].timestamp = agentStatusMap[w].timestamp
          /\ IF agentStatusMap[w].status = "running"
             THEN agentStatusMap'[w].lastHeartbeat = last'.ret.now
             ELSE agentStatusMap'[w] = agentStatusMap[w] ]_vars

\* a heartbeat has refreshed a running window after its status was set, while
\* the other window is idle with the heartbeat of its last status change
C19_Witness ==
    /\ last.op = "updateAgentHeartbeat"
    /\ agentStatusMap[last.ret.window].status = "running"
    /\ agentStatusMap[last.ret.window].lastHeartbeat = last.ret.now
    /\ agentStatusMap[last.ret.window].timestamp < last.ret.now
    /\ \E x \in Windows \ {last.ret.window} :
          /\ agentStatusMap[x].status = "idle"
          /\ agentStatusMap[x].lastHeartbeat = agentStatusMap[x].timestamp

\* the run r leaves the denied approval behind in this step
DenialResolved(r) == runs[r].pc = "denied" /\ runs'[r].pc # "denied"

\* C21: when a denied approval is resolved, a Denied tool result has been
\* appended to the conversation history of the run's window, and the window is
\* idle if the run was cancelled and running otherwise.
C21_DeniedResultInHistory ==
    [][ \A r \in Runs : DenialResolved(r) =>
          LET before == ConvOf(windowMessageHistories, runs[r].target)
              after == ConvOf(windowMessageHistories', runs[r].target)
          IN  /\ Len(after) = Len(before) + 1
              /\ after[Len(after)].content.val = "Denied"
              /\ StatusAfter(WinOf(runs[r].target))
                    = IF runs[r].cancelled THEN "idle" ELSE "running" ]_vars

\* C22: browser_dismiss_popups stores a memory only after a dismissal and only
\* under a non-empty normalized domain, and whether that write succeeds or
\* raises, the result is the Dismissed popups string of the phase that
\* dismissed (the fallback phase still has its closing wait to get through).
C22_MemoryWriteBestEffort ==
    [][ last'.op = "browser_dismiss_popups" =>
          /\ memories' # memories =>
                /\ last'.ret.dismissed
                /\ last'.ret.domain \notin {"", "throws"}
                /\ memories' = memories \cup {last'.ret.domain}
          /\ "" \notin memories'
          /\ (last'.ret.dismissed /\ last'.ret.phase = "locator") =>
                last'.ret.result = Returned("Dismissed popups")
          /\ ( /\ last'.ret.dismissed /\ last'.ret.phase = "fallback"
               /\ last'.ret.wait = "ok" ) =>
                last'.ret.result = Returned("Dismissed popups (fallback)") ]_vars

\* a dismissal whose memory write raised still returned its Dismissed result,
\* while an earlier dismissal on another domain is remembered
C22_Witness ==
    /\ last.op = "browser_dismiss_popups"
    /\ last.ret.dismissed
    /\ last.ret.store = "throws" /\ last.ret.domain = "shop.example"
    /\ last.ret.result = Returned("Dismissed popups (fallback)")
    /\ memories = {"news.example"}

\* C24: browser_click, browser_type, browser_handle_dialog and
\* browser_dismiss_popups return a string whatever the input and whatever the
\* page does: nothing raised by a page operation reaches the caller.
C24_ToolsReturnStrings ==
    last.op \in {"browser_click", "browser_type", "browser_handle_dialog",
                 "browser_dismiss_popups"} =>
        ~last.ret.result.threw

\* a dialog's accept() raised inside browser_handle_dialog and the tool
\* returned its error string, the dialog still being recorded
C24_Witness ==
    /\ last.op = "browser_handle_dialog"
    /\ last.ret.raised
    /\ last.ret.result = Returned("Error handling dialog")
    /\ lastDialog # "none"

\* C23: when executePrompt has gone through its initialization section and the
\* run goes on, the agent stored for the run's window was built for the
\* current provider configuration.
C23_AgentRebuiltOnConfigChange ==
    [][ ( /\ last'.op = "executePrompt"
          /\ Len(runs') = Len(runs) + 1
          /\ runs'[Len(runs')].pc = "setRunning"
          /\ agents'[WinOf(runs'[Len(runs')].target)] # "none" ) =>
            agents'[WinOf(runs'[Len(runs')].target)] = providerConfig.provider ]_vars

\* the history of the window of the tab onLlmOutput is about to act on, with
\* the assistant message it appends
BeforeTrim ==
    Append(ConvOf(windowMessageHistories, last'.tab),
           Msg("assistant", TextContent(streamingBuffer'[1].val)))

\* what onLlmOutput leaves in that window
AfterTrim == ConvOf(windowMessageHistories', last'.tab)

\* the last n messages of conv
Suffix(conv, n) == SubSeq(conv, Len(conv) - n + 1, Len(conv))

\* C25: the trim of onLlmOutput leaves a suffix of the history it found (with
\* the appended message), at least one message long; it evicts nothing when
\* the count is within the budget, and otherwise the suffix one message
\* longer than the one it leaves was still over the budget.
C25_TrimFromFrontOnly ==
    [][ (last'.op = "onLlmOutput" /\ getWindowForTab(last'.tab) # NoId) =>
          /\ Len(AfterTrim) >= 1
          /\ Len(AfterTrim) <= Len(BeforeTrim)
          /\ AfterTrim = Suffix(BeforeTrim, Len(AfterTrim))
          /\ contextTokenCount(BeforeTrim) <= MAX_CONVERSATION_TOKENS =>
                AfterTrim = BeforeTrim
          /\ Len(AfterTrim) < Len(BeforeTrim) =>
                contextTokenCount(Suffix(BeforeTrim, Len(AfterTrim) + 1))
                    > MAX_CONVERSATION_TOKENS ]_vars

\* an onLlmOutput that evicted exactly one message, the oldest, and kept the
\* rest: as many messages after the call as before it, the newest the
\* assistant message just appended
C25_Witness ==
    /\ last.op = "onLlmOutput"
    /\ getWindowForTab(last.tab) # NoId
    /\ Len(TrimmedConv) = last.ret
    /\ Len(TrimmedConv) >= 2
    /\ TrimmedConv[Len(TrimmedConv)].role = "assistant"
    /\ TrimmedConv[1].role = "user"

\* C26: when a trim of onLlmOutput ends, what it leaves is a suffix of the
\* history it counted when it decided to trim: no message was appended to
\* the window's history between the count and the last eviction, whatever
\* other calls were waiting at their awaits.
C26_TrimAtomic ==
    [][ ( /\ last'.op = "trim"
          /\ last'.ret.pc = "done"
          /\ contextTokenCount(last'.ret.counted) > MAX_CONVERSATION_TOKENS ) =>
            /\ Len(AfterTrim) <= Len(last'.ret.counted)
            /\ AfterTrim = Suffix(last'.ret.counted, Len(AfterTrim)) ]_vars

\* a trim has evicted messages while another call on the same tab was waiting
\* at its await with a message to append
C26_Witness ==
    /\ last.op = "trim"
    /\ last.ret.pc = "done"
    /\ contextTokenCount(last.ret.counted) > MAX_CONVERSATION_TOKENS
    /\ Len(ConvOf(windowMessageHistories, last.tab)) < Len(last.ret.counted)
    /\ \E d \in CallIds : calls[d].tab = last.tab /\ calls[d].pc = "append"

\* the place of the first effect named action in what onComplete did (0: none)
PlaceOf(effects, action) ==
    IF \E i \in 1..Len(effects) : effects[i].action = action
    THEN CHOOSE i \in 1..Len(effects) :
            /\ effects[i].action = action
            /\ \A j \in 1..(i - 1) : effects[j].action # action
    ELSE 0

\* C27: onComplete finalizes the trailing segment, if there is one, before it
\* clears the buffer, emits streamingComplete after the clearing, has set the
\* window's status to idle before it emits processingComplete, and
\* processingComplete is its last effect and the last event of the run: a
\* run that has completed emits nothing more.
C27_CompletionOrder ==
    [][ /\ last'.op = "onComplete" =>
              LET did == last'.ret
                  w   == getWindowForTab(last'.tab)
              IN  /\ PlaceOf(did, "finalizeStreamingSegment") < PlaceOf(did, "clearStreamingBuffer")
                  /\ ( streamingBuffer # <<>> /\ ~hasToolCall(streamingBuffer) ) =>
                        PlaceOf(did, "finalizeStreamingSegment") = 1
                  /\ PlaceOf(did, "clearStreamingBuffer") < PlaceOf(did, "streamingComplete")
                  /\ streamingBuffer' = <<>>
                  /\ w # NoId =>
                        /\ PlaceOf(did, "setAgentStatus") > 0
                        /\ PlaceOf(did, "setAgentStatus") < PlaceOf(did, "processingComplete")
                        /\ agentStatusMap'[w].status = "idle"
                  /\ PlaceOf(did, "processingComplete") = Len(did)
                  /\ last'.out[Len(last'.out)].action = "processingComplete"
        /\ \A r \in Runs :
              ( runs[r].pc = "done" /\ runs[r].result \in {"Completed", "FatalCompleted"} ) =>
                  last'.run # r ]_vars

\* a run has completed with a trailing segment: onComplete finalized it,
\* cleared the buffer and left the window idle
C27_Witness ==
    /\ last.op = "onComplete"
    /\ PlaceOf(last.ret, "finalizeStreamingSegment") = 1
    /\ Len(last.ret) = 5
    /\ streamingBuffer = <<>>
    /\ getAgentStatus(WinOf(last.tab)) = "idle"
    /\ runs[last.run].result = "Completed"

\* the message a step of run r hands to addToConversationHistory
IssuedBy(r) ==
    IF last'.op = "updateHistory"
    THEN UserMessage(runs[r].prompt, runs[r].images, nextRef)
    ELSE Msg("assistant", TextContent(runs[r].text))

C29_ErrorPathsStopProcessing ==
    ( /\ last.op = "handleSubmit"
      /\ last.ret.path \in {"tooManyImages", "tooManyPdfs", "unsupportedFormat",
                             "imageTooLarge"} ) =>
        ~isProcessing

\* C30: a message that passes isBackgroundMessage is handled by a case of the
\* switch, never by its default branch; a message that fails the guard is
\* answered { success: false, error: 'Unknown message type' } and handleMessage
\* returns false.
C30_GuardedActionsHandled ==
    last.op = "handleMessage" =>
        IF isBackgroundMessage(last.ret.message)
        THEN last.ret.branch # "default"
        ELSE /\ last.ret.response = Response(FALSE, "Unknown message type")
             /\ ~last.ret.returns

\* the inputs that are CSS selectors: id, class, attribute and combinator forms
CssSelectors ==
    {<<"#", "s">>, <<".", "b">>, <<"a", "[", "h", "]">>,
     <<"[", "a", "=", "\"", "b", "\"", "]">>, <<"a", " ", ">", " ", "b">>,
     <<"u", " ", ">", " ", "l", ".", "i">>}

\* C31: when the input of browser_click is a CSS selector that matches an
\* element of the active page and matches nothing as text, the tool returns
\* Clicked selector.
C31_SelectorClicked ==
    ( /\ last.op = "browser_click"
      /\ last.ret.input \in CssSelectors
      /\ last.ret.page.active
      /\ last.ret.page.selector
      /\ ~last.ret.page.text ) =>
        last.ret.result = Returned("Clicked selector")

\* C32: with no clear in between, a window's originalRequest is assigned once,
\* and once the window's conversationHistory holds a message, originalRequest
\* is the first of them, however the history updates of overlapping
\* executePrompt calls interleave.
C32_OriginalRequestSetOnce ==
    [][ \A w \in Windows :
          /\ windowMessageHistories'[w].originalRequest
                 # windowMessageHistories[w].originalRequest =>
                windowMessageHistories[w].originalRequest = None
          /\ ( /\ windowMessageHistories'[w].originalRequest # None
               /\ windowMessageHistories'[w].conversationHistory # <<>> ) =>
                windowMessageHistories'[w].originalRequest =
                    windowMessageHistories'[w].conversationHistory[1] ]_vars

\* run n was started on the window of run r after the last cancel and is in
\* progress
RunningBeside(r, n) ==
    /\ n # r
    /\ runs[n].cancelCompletes = 0
    /\ WinOf(runs[n].target) = WinOf(runs[r].target)
    /\ runs[n].pc \in EnginePcs
    /\ ~runs[n].cancelled

\* C33: the onComplete of a cancelled run that arrives while a later run is
\* in progress on the same window leaves the window's status running and the
\* streaming buffer as it is, and emits nothing.
C33_LateCompleteIgnored ==
    [][ \A r, n \in Runs :
          ( /\ runs[r].cancelled
            /\ RunningBeside(r, n)
            /\ last'.op = "onComplete" /\ last'.run = r ) =>
              /\ agentStatusMap'[WinOf(runs[r].target)].status = "running"
              /\ streamingBuffer' = streamingBuffer
              /\ last'.out = <<>> ]_vars

\* C34: an executePrompt call in ask mode, whether its stream ends well or
\* fails, leaves every window's history, every window's status, the streaming
\* buffer and the segment id as they were.
C34_AskModeChangesNothing ==
    [][ ( /\ last'.op = "executePrompt"
          /\ Len(runs') = Len(runs) + 1
          /\ runs'[Len(runs')].askMode ) =>
            /\ windowMessageHistories' = windowMessageHistories
            /\ agentStatusMap' = agentStatusMap
            /\ streamingBuffer' = streamingBuffer
            /\ currentSegmentId' = currentSegmentId ]_vars

\* an ask-mode call on tab 1 has failed while the run of tab 1 was streaming:
\* the window is still running and the buffer still holds the run's text
C34_Witness ==
    /\ last.op = "executePrompt"
    /\ runs[Len(runs)].askMode
    /\ runs[Len(runs)].result = "AskError"
    /\ last.tab = 1
    /\ streamingBuffer # <<>>
    /\ getAgentStatus(WinOf(1)) = "running"
    /\ windowMessageHistories[WinOf(1)].conversationHistory # <<>>

RECURSIVE Concat(_)
\* the contents of the parts, joined in list order
Concat(parts) ==
    IF parts = <<>> THEN <<>> ELSE parts[1].content \o Concat(Tail(parts))

\* C36: the parts LlmContent makes of a content, joined in list order, are
\* the content.
C36_PartsPartitionContent ==
    last.op = "LlmContent" => Concat(last.ret.parts) = last.ret.content

\* C37: whenever neither the chip nor the prompt panel is shown, isInteracting
\* and isPromptOpen are false.
C37_SelectionNeverDisabled ==
    (~quickPrompt.quickPromptButton /\ ~quickPrompt.panel) =>
        (~quickPrompt.isInteracting /\ ~quickPrompt.isPromptOpen)

====
